---- MODULE Spec2Model ----
(***************************************************************************)
(* Navigation toolbox: the A* pathfinder (utils/astar.js) and the two      *)
(* Bidirectionality panels (belief filter, action policy, demo script).    *)
(*                                                                         *)
(* Numbers.  The program computes in IEEE doubles; the model computes in   *)
(* integers: lengths of the pathfinder in graph units (the layouts are     *)
(* integral point sets, so Math.hypot is exact on them), panel positions   *)
(* in 1/PS pixel, angles in milliradians, time in milliseconds, belief     *)
(* weights in 1/Scale.                                                     *)
(***************************************************************************)
EXTENDS Integers, Sequences, FiniteSets, TLC

VARIABLES
    \* ---- findPath(nodes, startId, endId) ----
    layout,      \* which node layout (coordinates) the graph uses
    nbrs,        \* nodes[id].neighbors, a sequence of ids per node
    startId, endId,
    openSet,     \* sequence of ids, in insertion order
    cameFrom,    \* id -> predecessor id, Undefined where unset
    gScore, fScore,
    apc,         \* "loop" while in the while loop, "returned" after return
    path         \* the returned value: a sequence of ids, or Null

astarVars == <<layout, nbrs, startId, endId, openSet, cameFrom, gScore, fScore, apc, path>>

VARIABLES
    \* ---- Bidirectionality panels (the refs the tick callback works on) ----
    variant,         \* "basic": the panel of lines 1-473; "demo": lines 474-1084
    priorRef,        \* "WEAK" | "STRONG_CORRECT" | "STRONG_WRONG"
    simModeRef,      \* "BIDIR" | "STUBBORN"
    runningRef,
    robotRef,        \* [x, y, theta]
    beliefRef,       \* <<w1, w2>>
    actionRef,       \* the stored action label
    measRef,         \* the measurement record, or NoMeas for null
    elapsedRef, senseTimerRef,
    stubTimerRef, stubSideRef,
    verifyRef,       \* verifyRef.current.needsVerify (demo variant)
    demoRef,         \* [phase, reached, hold] (demo variant)
    demoEnabledRef,  \* (demo variant)
    \* ---- observation of the last handler that ran ----
    ev,              \* what the last handler chose, published and sensed
    sinceSense,      \* tick time accumulated since the last sense event
    senseCount       \* sense events since the last reset, counted up to MaxNoisy

bidirVars == <<variant, priorRef, simModeRef, runningRef, robotRef, beliefRef, actionRef,
               measRef, elapsedRef, senseTimerRef, stubTimerRef, stubSideRef, verifyRef,
               demoRef, demoEnabledRef, ev, sinceSense, senseCount>>

VARIABLES
    \* ---- wrapPi(a) called on its own ----
    wrapArg,     \* the argument, in milliradians
    wrapRes,     \* the returned value
    wpc          \* "call" before the call, "done" after it

wrapVars == <<wrapArg, wrapRes, wpc>>

VARIABLES
    \* ---- Level2Auto (the scripted demo of TabViews/Limitations.js) ----
    foods,        \* stateRef.current.foods: the six places drawn at mount
    framePeriod,  \* the delta-time the host passes to the callback (ms)
    noise,        \* the values randn() returns in this run
    seqRef,       \* [idx, t]: the step of DEMO_SEQUENCE and the time spent in it
    stateRef,     \* agent, odo, trail, odoTrail, drift, lmLocked, foodIdx, ...
    simTime,      \* the delta-time delivered since mount (ms)
    autoEv        \* what the last frame did

autoVars == <<foods, framePeriod, noise, seqRef, stateRef, simTime, autoEv>>

VARIABLES
    \* ---- Level3 and its automated demo (useState values) ----
    l3variant,         \* "basic": the panel of lines 1085-1304; "demo": lines 1306-1854
    goalLinks,         \* the goals named in the neighbors of n5 and n6 of GRAPH_NODES
    agent,             \* [x, y, theta]
    goalId,            \* "goal_A" | "goal_B"
    l3mode,            \* mode: "VECTOR" | "ROUTE" | "MAP"
    plannedPath,       \* sequence of node ids
    currentPathIndex,  \* counted from 0
    isRunning, demoPhase, isStuck,
    vectorTarget,      \* "goal" | "start" | "hold"
    pendingTimer,      \* the phase whose setTimeout is pending, or "none"
    frameMs,           \* the delta-time the host passes to the callback (ms)
    l3ev               \* what the last step was

l3Vars == <<l3variant, goalLinks, agent, goalId, l3mode, plannedPath, currentPathIndex, isRunning,
            demoPhase, isStuck, vectorTarget, pendingTimer, frameMs, l3ev>>

VARIABLES
    \* ---- Level2 (part_004) ----
    level2,   \* the refs of the component: agent, odo, foods, trails, phase, ...
    l2env     \* the frame period, the draws of randn(), the clicks so far

l2Vars == <<level2, l2env>>

VARIABLES
    \* ---- Level4 (part_002) ----
    level4,   \* the refs of the component: submode, agent, target, route, command, ...
    l4env     \* the frame period, the keys pressed so far

l4Vars == <<level4, l4env>>

VARIABLES
    \* ---- the confidence predicate evaluated on its own ----
    confBelief,   \* the belief [w1, w2] as written in decimal, in hundredths
    confRes,      \* the value of Math.abs(w1 - w2) >= CONF_THRESH
    cpc           \* "call" before the evaluation, "done" after it

confVars == <<confBelief, confRes, cpc>>

VARIABLES
    callbackRef, \* callbackRef.current of useGameLoop: Latest while it holds the
                 \* callback of the last render, else the state of the
                 \* component that the callback it holds was rendered with
    rafQueue,   \* the callbacks requestAnimationFrame holds for the next frame
    mounted     \* the part under study: the function called or the panel on
                \* screen; "none" once the panel has been unmounted

vars == <<astarVars, bidirVars, wrapVars, autoVars, l3Vars, l2Vars, l4Vars, confVars, callbackRef, rafQueue, mounted>>

\* the variables an action of one part leaves alone
notAstarVars == <<bidirVars, wrapVars, autoVars, l3Vars, l2Vars, l4Vars, confVars, callbackRef, rafQueue, mounted>>

notBidirVars == <<astarVars, wrapVars, autoVars, l3Vars, l2Vars, l4Vars, confVars, callbackRef, rafQueue, mounted>>

notWrapVars == <<astarVars, bidirVars, autoVars, l3Vars, l2Vars, l4Vars, confVars, callbackRef, rafQueue, mounted>>

notAutoVars == <<astarVars, bidirVars, wrapVars, l3Vars, l2Vars, l4Vars, confVars, callbackRef, rafQueue, mounted>>

notL3Vars == <<astarVars, bidirVars, wrapVars, autoVars, l2Vars, l4Vars, confVars, callbackRef, rafQueue, mounted>>

notL2Vars == <<astarVars, bidirVars, wrapVars, autoVars, l3Vars, l4Vars, confVars, callbackRef, rafQueue, mounted>>

notL4Vars == <<astarVars, bidirVars, wrapVars, autoVars, l3Vars, l2Vars, confVars, callbackRef, rafQueue, mounted>>

notConfVars == <<astarVars, bidirVars, wrapVars, autoVars, l3Vars, l2Vars, l4Vars, callbackRef, rafQueue, mounted>>

(***************************************************************************)
(* Generic helpers                                                         *)
(***************************************************************************)
Abs(v) == IF v < 0 THEN -v ELSE v

Min2(a, b) == IF a < b THEN a ELSE b

Max2(a, b) == IF a > b THEN a ELSE b

\* round-to-nearest division for b > 0 (doubles round to nearest)
RoundDiv(a, b) == IF a >= 0 THEN (2 * a + b) \div (2 * b)
                  ELSE -((2 * (-a) + b) \div (2 * b))

\* floor of the square root, by bisection of lo..hi
RECURSIVE SqrtBetween(_, _, _)
SqrtBetween(v, lo, hi) ==
    IF lo >= hi THEN lo
    ELSE LET mid == (lo + hi + 1) \div 2
         IN  IF mid * mid <= v THEN SqrtBetween(v, mid, hi) ELSE SqrtBetween(v, lo, mid - 1)

ISqrt(v) == SqrtBetween(v, 0, Min2(v, 46340))

\* Math.hypot on integer arguments (exact when dx^2 + dy^2 is a square)
Hypot(dx, dy) == ISqrt(dx * dx + dy * dy)

(***************************************************************************)
(* findPath                                                                *)
(***************************************************************************)
\* node ids: numeric keys 0..4 of the nodes object
Nodes == 0..4

\* a property that was never assigned reads as undefined
Undefined == -1

\* `return null`
Null == <<-1>>

\* gScore/fScore initial value (Infinity): larger than any path length
Infinity == 1000000

\* largest number of neighbours a node lists
MaxOutDeg == 2

\* coordinates: integral point sets, every distance that is used is an integer
\* 1: the 3-4-5 rectangle; 2: three collinear points and an apex (in both,
\* node 4 lies apart and no edge touches it); 3: five points on a line
Layouts == <<
    [n \in Nodes |-> CASE n = 0 -> [x |-> 0, y |-> 0]
                       [] n = 1 -> [x |-> 3, y |-> 0]
                       [] n = 2 -> [x |-> 0, y |-> 4]
                       [] n = 3 -> [x |-> 3, y |-> 4]
                       [] n = 4 -> [x |-> 6, y |-> 8]],
    [n \in Nodes |-> CASE n = 0 -> [x |-> 0, y |-> 0]
                       [] n = 1 -> [x |-> 3, y |-> 0]
                       [] n = 2 -> [x |-> -3, y |-> 0]
                       [] n = 3 -> [x |-> 0, y |-> 4]
                       [] n = 4 -> [x |-> 0, y |-> -4]],
    [n \in Nodes |-> CASE n = 0 -> [x |-> 0, y |-> 0]
                       [] n = 1 -> [x |-> -2, y |-> 0]
                       [] n = 2 -> [x |-> 5, y |-> 0]
                       [] n = 3 -> [x |-> 10, y |-> 0]
                       [] n = 4 -> [x |-> -20, y |-> 0]] >>

\* the nodes that edges join in layouts 1 and 2
Linked == 0..3

NodeAt(id) == Layouts[layout][id]

\* Euclidean length of the edge a -> b (astar.js line 48)
EdgeDist(a, b) == Hypot(NodeAt(a).x - NodeAt(b).x, NodeAt(a).y - NodeAt(b).y)

\* heuristic: Euclidean distance to the goal
h(id) == Hypot(NodeAt(id).x - NodeAt(endId).x, NodeAt(id).y - NodeAt(endId).y)

\* sequences without repetition over a set, up to a length
RECURSIVE SeqsNoRep(_, _)
SeqsNoRep(S, n) ==
    IF n = 0 THEN {<<>>}
    ELSE {<<>>} \cup UNION { { <<e>> \o t : t \in SeqsNoRep(S \ {e}, n - 1) } : e \in S }

\* ascending neighbour lists only: the order of a list is the order of the ids
Ascending(s) == \A i \in 1..(Len(s) - 1) : s[i] < s[i + 1]

NeighbourLists(n) == { s \in SeqsNoRep(Nodes \ {n}, MaxOutDeg) : Ascending(s) }

LinkedLists(n) == { s \in SeqsNoRep(Linked \ {n}, MaxOutDeg) : Ascending(s) }

\* the nodes object with the neighbour lists a, b, c, d of nodes 0..3; node 4
\* lists no neighbour
Graph(a, b, c, d) ==
    [n \in Nodes |-> CASE n = 0 -> a [] n = 1 -> b [] n = 2 -> c [] n = 3 -> d
                       [] n = 4 -> <<>>]

\* JavaScript truthiness of an id read from cameFrom: undefined and 0 are falsy
Truthy(v) == v # Undefined /\ v # 0

\* openSet.reduce((a, b) => fScore[a] < fScore[b] ? a : b)
RECURSIVE ReduceMin(_, _, _, _)
ReduceMin(os, f, i, acc) ==
    IF i > Len(os) THEN acc
    ELSE ReduceMin(os, f, i + 1, IF f[acc] < f[os[i]] THEN acc ELSE os[i])

LowestF(os, f) == ReduceMin(os, f, 2, os[1])

\* openSet.splice(openSet.indexOf(current), 1)
RemoveFirst(os, v) ==
    LET i == CHOOSE k \in 1..Len(os) : os[k] = v /\ \A j \in 1..(k - 1) : os[j] # v
    IN  SubSeq(os, 1, i - 1) \o SubSeq(os, i + 1, Len(os))

Includes(os, v) == \E k \in 1..Len(os) : os[k] = v

\* a variant of the test below that accepts every tentative score
Improves_Always(tentativeG, known) == TRUE

\* if (tentativeG < gScore[nextId])
Improves(tentativeG, known) == tentativeG < known

\* the for loop over the neighbours of current, one neighbour per step
RECURSIVE Relax(_, _, _, _)
Relax(current, nb, i, st) ==
    IF i > Len(nb) THEN st
    ELSE LET nextId == nb[i]
             dist == EdgeDist(current, nextId)
             tentativeG == st.g[current] + dist
         IN  IF Improves(tentativeG, st.g[nextId])
             THEN Relax(current, nb, i + 1,
                        [came |-> [st.came EXCEPT ![nextId] = current],
                         g    |-> [st.g EXCEPT ![nextId] = tentativeG],
                         f    |-> [st.f EXCEPT ![nextId] = tentativeG + h(nextId)],
                         open |-> IF Includes(st.open, nextId) THEN st.open
                                  ELSE Append(st.open, nextId)])
             ELSE Relax(current, nb, i + 1, st)

\* while (cameFrom[current]) { current = cameFrom[current]; path.unshift(current) }
\* fuel: the chain is followed for at most Cardinality(Nodes) steps
RECURSIVE Reconstruct(_, _, _, _)
Reconstruct(current, p, came, fuel) ==
    IF Truthy(came[current]) /\ fuel > 0
    THEN Reconstruct(came[current], <<came[current]>> \o p, came, fuel - 1)
    ELSE p

\* layouts 1 and 2: every graph on nodes 0..3, every goal among them;
\* layout 3: every graph on the five nodes, the goal is node 4
AstarInit ==
    /\ \/ /\ layout \in {1, 2}
          /\ \E a \in LinkedLists(0), b \in LinkedLists(1), c \in LinkedLists(2),
                d \in LinkedLists(3) : nbrs = Graph(a, b, c, d)
          /\ endId \in Linked
       \/ /\ layout = 3
          /\ \E a \in NeighbourLists(0), b \in NeighbourLists(1), c \in NeighbourLists(2),
                d \in NeighbourLists(3) : nbrs = Graph(a, b, c, d)
          /\ endId = 4
    /\ startId \in {0, 1}
    /\ openSet = <<startId>>
    /\ cameFrom = [n \in Nodes |-> Undefined]
    /\ gScore = [n \in Nodes |-> IF n = startId THEN 0 ELSE Infinity]
    /\ fScore = [n \in Nodes |-> IF n = startId THEN h(startId) ELSE Infinity]
    /\ apc = "loop"
    /\ path = Null

\* one iteration of the while loop that ends in `return path`
ReturnPath ==
    /\ apc = "loop"
    /\ Len(openSet) > 0
    /\ LET current == LowestF(openSet, fScore)
       IN  /\ current = endId
           /\ path' = Reconstruct(current, <<current>>, cameFrom, Cardinality(Nodes))
    /\ apc' = "returned"
    /\ UNCHANGED <<layout, nbrs, startId, endId, openSet, cameFrom, gScore, fScore>>
    /\ UNCHANGED notAstarVars

\* one iteration of the while loop that expands current
Expand ==
    /\ apc = "loop"
    /\ Len(openSet) > 0
    /\ LET current == LowestF(openSet, fScore)
           st == Relax(current, nbrs[current], 1,
                       [came |-> cameFrom, g |-> gScore, f |-> fScore,
                        open |-> RemoveFirst(openSet, current)])
       IN  /\ current # endId
           /\ cameFrom' = st.came
           /\ gScore' = st.g
           /\ fScore' = st.f
           /\ openSet' = st.open
    /\ UNCHANGED <<layout, nbrs, startId, endId, apc, path>>
    /\ UNCHANGED notAstarVars

\* the loop ends with the open set empty: return an empty route
ReturnNull_EmptyRoute ==
    /\ apc = "loop"
    /\ Len(openSet) = 0
    /\ apc' = "returned"
    /\ path' = <<>>
    /\ UNCHANGED <<layout, nbrs, startId, endId, openSet, cameFrom, gScore, fScore>>
    /\ UNCHANGED notAstarVars

\* the loop ends with the open set empty: return null
ReturnNull ==
    /\ apc = "loop"
    /\ Len(openSet) = 0
    /\ apc' = "returned"
    /\ path' = Null
    /\ UNCHANGED <<layout, nbrs, startId, endId, openSet, cameFrom, gScore, fScore>>
    /\ UNCHANGED notAstarVars

AstarNext == ReturnPath \/ Expand \/ ReturnNull

\* no search running: the variables of findPath while the panels are modelled
AstarParked ==
    /\ layout = 1
    /\ nbrs = [n \in Nodes |-> <<>>]
    /\ startId = 0
    /\ endId = 0
    /\ openSet = <<>>
    /\ cameFrom = [n \in Nodes |-> Undefined]
    /\ gScore = [n \in Nodes |-> Infinity]
    /\ fScore = [n \in Nodes |-> Infinity]
    /\ apc = "returned"
    /\ path = Null


(***************************************************************************)
(* Bidirectionality: helpers                                               *)
(***************************************************************************)
\* Math.PI in milliradians
Pi == 3142

HalfPi == 1571

\* positions are kept in 1/PS pixel
PS == 10

\* belief weights are kept in 1/Scale
Scale == 1000

clamp(v, lo, hi) == Max2(lo, Min2(hi, v))

\* while (a > PI) a -= 2 PI; while (a < -PI) a += 2 PI
RECURSIVE wrapPi(_)
wrapPi(a) ==
    IF a > Pi THEN wrapPi(a - 2 * Pi)
    ELSE IF a < -Pi THEN wrapPi(a + 2 * Pi)
    ELSE a

angleDiff(a, b) == wrapPi(a - b)

\* the arguments wrapPi is called on: MaxWrapTurns half turns either way
MaxWrapTurns == 3

WrapArgs == (-(MaxWrapTurns * Pi))..(MaxWrapTurns * Pi)

WrapInit ==
    /\ wrapArg \in WrapArgs
    /\ wrapRes = 0
    /\ wpc = "call"

\* the call wrapPi(wrapArg)
WrapCall ==
    /\ wpc = "call"
    /\ wrapRes' = wrapPi(wrapArg)
    /\ wpc' = "done"
    /\ UNCHANGED wrapArg
    /\ UNCHANGED notWrapVars

\* ---- wrapPi on the numbers of JavaScript, one loop step at a time ----
\* a double: a finite value in milliradians, NaN, an infinity, or a finite
\* double so large (2^55 and above) that adding 2 pi rounds back to it
Fin(v) == [k |-> "fin", v |-> v]

NaNv == [k |-> "nan", v |-> 0]

PlusInf == [k |-> "inf", v |-> 1]

MinusInf == [k |-> "inf", v |-> -1]

HugePos == [k |-> "huge", v |-> 1]

HugeNeg == [k |-> "huge", v |-> -1]

\* a > Math.PI
JsAbovePi(a) ==
    IF a.k = "fin" THEN a.v > Pi
    ELSE IF a.k = "nan" THEN FALSE
    ELSE a.v > 0

\* a < -Math.PI
JsBelowMinusPi(a) ==
    IF a.k = "fin" THEN a.v < -Pi
    ELSE IF a.k = "nan" THEN FALSE
    ELSE a.v < 0

\* a + turns * 2 * Math.PI, turns = 1 or -1
JsAddTurn(a, turns) == IF a.k = "fin" THEN Fin(a.v + turns * 2 * Pi) ELSE a

JsWrapArgs ==
    {Fin(v) : v \in WrapArgs} \cup {NaNv, PlusInf, MinusInf, HugePos, HugeNeg}

\* the call wrapPi(wrapArg) is about to test the first loop condition;
\* wrapRes holds the local a
WrapLoopInit ==
    /\ wrapArg \in JsWrapArgs
    /\ wrapRes = wrapArg
    /\ wpc = "while1"

\* while (a > Math.PI) a -= 2 * Math.PI: one round
WrapDown ==
    /\ wpc = "while1"
    /\ JsAbovePi(wrapRes)
    /\ wrapRes' = JsAddTurn(wrapRes, -1)
    /\ UNCHANGED <<wrapArg, wpc>>
    /\ UNCHANGED notWrapVars

\* the first loop is left
WrapDownDone ==
    /\ wpc = "while1"
    /\ ~JsAbovePi(wrapRes)
    /\ wpc' = "while2"
    /\ UNCHANGED <<wrapArg, wrapRes>>
    /\ UNCHANGED notWrapVars

\* while (a < -Math.PI) a += 2 * Math.PI: one round
WrapUp ==
    /\ wpc = "while2"
    /\ JsBelowMinusPi(wrapRes)
    /\ wrapRes' = JsAddTurn(wrapRes, 1)
    /\ UNCHANGED <<wrapArg, wpc>>
    /\ UNCHANGED notWrapVars

\* return a
WrapReturn ==
    /\ wpc = "while2"
    /\ ~JsBelowMinusPi(wrapRes)
    /\ wpc' = "done"
    /\ UNCHANGED <<wrapArg, wrapRes>>
    /\ UNCHANGED notWrapVars

WrapLoopNext == WrapDown \/ WrapDownDone \/ WrapUp \/ WrapReturn

\* wrapPi is not being called
WrapParked ==
    /\ wrapArg = 0
    /\ wrapRes = 0
    /\ wpc = "done"

\* 1000 sin(a) for 0 <= a <= Pi (Bhaskara's rational approximation)
SinPos(a) == LET p == a * (Pi - a)
             IN  RoundDiv(16 * p, RoundDiv(5 * Pi * Pi - 4 * p, 1000))

\* 1000 Math.sin(a), a in milliradians
Sin(a) == LET w == wrapPi(a) IN IF w >= 0 THEN SinPos(w) ELSE -SinPos(-w)

\* 1000 Math.cos(a)
Cos(a) == Sin(a + HalfPi)

\* atan(z / 1000) in milliradians for 0 <= z <= 1000
AtanUnit(z) == RoundDiv(z * (785 + RoundDiv(273 * (1000 - z), 1000)), 1000)

\* Math.atan2(dy, dx) in milliradians
Atan2(dy, dx) ==
    LET ax == Abs(dx)
        ay == Abs(dy)
        a  == IF ax >= ay THEN AtanUnit(RoundDiv(ay * 1000, ax))
              ELSE HalfPi - AtanUnit(RoundDiv(ax * 1000, ay))
    IN  IF ax = 0 /\ ay = 0 THEN 0
        ELSE IF dx >= 0 THEN (IF dy >= 0 THEN a ELSE -a)
        ELSE (IF dy >= 0 THEN Pi - a ELSE a - Pi)

(***************************************************************************)
(* Bidirectionality: world and parameters                                  *)
(***************************************************************************)
WORLD_W == 400

WORLD_H == 300

L1 == [x |-> 340 * PS, y |-> 80 * PS, label |-> "L1"]

L2 == [x |-> 340 * PS, y |-> 220 * PS, label |-> "L2"]

VANTAGE == [x |-> 200 * PS, y |-> 150 * PS, label |-> "V"]

START == [x |-> 60 * PS, y |-> 150 * PS, theta |-> 0]

V_SENSE_RADIUS == 55

\* CONF_THRESH = 0.40, in 1/Scale
CONF_THRESH == 400

\* px/sec
SPEED == IF variant = "demo" THEN 62 ELSE 90

\* TURN_RATE in milliradians per 10 ms (3.5 and 3.0 rad/sec)
TURN_RATE10 == IF variant = "demo" THEN 30 ELSE 35

\* STUB_DITHER_PERIOD = 1.6, in ms
STUB_DITHER_PERIOD == 1600

\* SENSE_PERIOD = 0.35, in ms
SENSE_PERIOD == 350

\* the tempering exponent alpha, in percent
Alpha == IF variant = "demo" THEN 85 ELSE 70

\* the auto loop limit, 28 s
AUTO_LOOP_MS == 28000

\* the arrival epsilon 2.5 px, in 1/PS pixel
ARRIVE_EPS == 25

DEMO_GOAL_RADIUS == 16

\* DEMO_HOLD_AFTER_GOAL = 1.8, in ms
DEMO_HOLD_AFTER_GOAL == 1800

DEMO == << [prior |-> "STRONG_WRONG", mode |-> "STUBBORN", goal |-> "L2"],
           [prior |-> "STRONG_WRONG", mode |-> "BIDIR", goal |-> "L1"] >>

Priors == {"WEAK", "STRONG_CORRECT", "STRONG_WRONG"}

Modes == {"BIDIR", "STUBBORN"}

\* measInfo === null
NoMeas == [winner |-> "none"]

A_IDLE == "IDLE"

A_GO_V == "GO_TO_V (active localization)"

A_VERIFY == "GO_TO_V (verify)"

A_L1 == "GO_TO_L1 (belief commit)"

A_L2 == "GO_TO_L2 (belief commit)"

A_STUB_L1 == "GO_TO_L1 (stubborn prior)"

A_STUB_L2 == "GO_TO_L2 (stubborn prior)"

A_DITHER == "DITHER (weak prior; no updates)"

\* ---- bounds of the model ----
\* the delta times the host delivers, in ms: a repeated timestamp, a frame at
\* the upper end of the band, and a frame after a stall (above the band)
DtSet == {0, 250, 300}

\* the measurements modelled, as <<err1 / sigma, err2 / sigma>>: the noise-free
\* one (the robot is where hypothesis 1 says), one that favours hypothesis 2,
\* and one with randn() near its largest value (8.57), away from the bearing
\* of hypothesis 2: w1 lh1^alpha + w2 lh2^alpha is then below 1e-9
NoiseFree == <<0, 2>>

SensePairs == {NoiseFree, <<2, 0>>, <<8, 10>>}

\* the first MaxNoisy sense events after a reset draw their noise freely; the
\* later ones are noise-free
MaxNoisy == 3

\* ticks are delivered while elapsedRef is below this many seconds
MaxElapsed == 29

computeInitialBelief(mode) ==
    IF mode = "WEAK" THEN <<500, 500>>
    ELSE IF mode = "STRONG_CORRECT" THEN <<900, 100>>
    ELSE IF variant = "demo" THEN <<150, 850>> ELSE <<100, 900>>

\* Math.abs(w1 - w2) >= CONF_THRESH
Confident(b) == Abs(b[1] - b[2]) >= CONF_THRESH

\* Math.exp(-0.5 * (err / sigma) * (err / sigma)) in 1/1000, err / sigma = z;
\* for z >= 8 the value is below 2e-14, which is 0 in 1/1000 and keeps the sum
\* on the same side of 1e-9 as the doubles do
ExpHalfSq(z) == CASE z = 0 -> 1000
                  [] z = 1 -> 607
                  [] z = 2 -> 135
                  [] OTHER -> 0

\* Math.pow(lh, alpha) in 1/1000, on the values ExpHalfSq takes
Pow(lh, alphaPct) == CASE lh = 1000 -> 1000
                       [] lh = 607 -> (IF alphaPct = 70 THEN 705 ELSE 654)
                       [] lh = 135 -> (IF alphaPct = 70 THEN 247 ELSE 183)
                       [] OTHER -> 0

\* s > 1e-9, s in 1/(Scale * 1000): 1e-9 is a thousandth of one unit
AboveNegligible(s) == s * 1000 > 1

\* b = [nw1, nw2] without the division by s
Normalize_Skipped(nw1, nw2, s) == <<nw1 \div 1000, nw2 \div 1000>>

\* nw1 /= s; nw2 /= s
Normalize(nw1, nw2, s) == <<RoundDiv(nw1 * Scale, s), RoundDiv(nw2 * Scale, s)>>

\* a belief update that counts the measurement but learns nothing from it
BeliefUpdate_Uninformed(b, z1, z2) == [b |-> b, updated |-> TRUE]

\* a belief update that falls back to the even belief when the sum is negligible
BeliefUpdate_EvenOnUnderflow(b, z1, z2) ==
    LET lh1 == ExpHalfSq(z1)
        lh2 == ExpHalfSq(z2)
        nw1 == b[1] * Pow(lh1, Alpha)
        nw2 == b[2] * Pow(lh2, Alpha)
        s   == nw1 + nw2
    IN  IF AboveNegligible(s) THEN [b |-> Normalize(nw1, nw2, s), updated |-> TRUE]
        ELSE [b |-> <<Scale \div 2, Scale \div 2>>, updated |-> FALSE]

\* a belief update that weighs each hypothesis by the other one's likelihood
BeliefUpdate_Crossed(b, z1, z2) ==
    LET lh1 == ExpHalfSq(z2)
        lh2 == ExpHalfSq(z1)
        nw1 == b[1] * Pow(lh1, Alpha)
        nw2 == b[2] * Pow(lh2, Alpha)
        s   == nw1 + nw2
    IN  IF AboveNegligible(s) THEN [b |-> Normalize(nw1, nw2, s), updated |-> TRUE]
        ELSE [b |-> b, updated |-> FALSE]

\* the belief update of one sense event with errors z1, z2 (in sigmas)
BeliefUpdate(b, z1, z2) ==
    LET lh1 == ExpHalfSq(z1)
        lh2 == ExpHalfSq(z2)
        nw1 == b[1] * Pow(lh1, Alpha)
        nw2 == b[2] * Pow(lh2, Alpha)
        s   == nw1 + nw2
    IN  IF AboveNegligible(s) THEN [b |-> Normalize(nw1, nw2, s), updated |-> TRUE]
        ELSE [b |-> b, updated |-> FALSE]

\* squared distance, in (1/PS pixel)^2
Dist2(ax, ay, bx, by) == (ax - bx) * (ax - bx) + (ay - by) * (ay - by)

\* Math.hypot(p.x - r.x, p.y - r.y) <= radius (radius in px)
Within(p, r, radius) == Dist2(p.x, p.y, r.x, r.y) <= (radius * PS) * (radius * PS)


(***************************************************************************)
(* Bidirectionality: reset, start, pause, the demo script                  *)
(*                                                                         *)
(* Every setState call of the panels is paired with the assignment of the  *)
(* same value to the matching ref, so the refs are the state; the calls of *)
(* setAction are recorded in ev.published.                                 *)
(***************************************************************************)
\* kind: "init", "tick" (a frame that ran the callback), "idle" (a skipped frame,
\* start, pause), "reset" (reset, beginDemoPhase and the demo buttons)
NoEv == [kind |-> "init", dt |-> 0, target |-> "none", nextAction |-> "none",
         published |-> <<>>, sensed |-> FALSE, updated |-> FALSE,
         inVantage |-> FALSE, timer |-> 0, didReset |-> FALSE]

\* reset with the belief always computed for the WEAK prior
ResetFields_WeakBelief(newPrior, newSimMode, side) ==
    [running |-> FALSE, prior |-> newPrior, mode |-> newSimMode,
     robot |-> START, belief |-> computeInitialBelief("WEAK"),
     action |-> A_IDLE, meas |-> NoMeas, elapsed |-> 0, senseTimer |-> 0,
     verify |-> (variant = "demo"), stubTimer |-> 0, stubSide |-> side]

\* the refs after reset(newPrior, newSimMode); side is the Math.random() draw
ResetFields(newPrior, newSimMode, side) ==
    [running |-> FALSE, prior |-> newPrior, mode |-> newSimMode,
     robot |-> START, belief |-> computeInitialBelief(newPrior),
     action |-> A_IDLE, meas |-> NoMeas, elapsed |-> 0, senseTimer |-> 0,
     verify |-> (variant = "demo"), stubTimer |-> 0, stubSide |-> side]

\* assigns the refs from a record of the shape of ResetFields
SetRefs(f) ==
    /\ runningRef' = f.running
    /\ priorRef' = f.prior
    /\ simModeRef' = f.mode
    /\ robotRef' = f.robot
    /\ beliefRef' = f.belief
    /\ actionRef' = f.action
    /\ measRef' = f.meas
    /\ elapsedRef' = f.elapsed
    /\ senseTimerRef' = f.senseTimer
    /\ verifyRef' = f.verify
    /\ stubTimerRef' = f.stubTimer
    /\ stubSideRef' = f.stubSide

\* the Reset, Prior and Mode buttons of the basic panel
reset(newPrior, newSimMode) ==
    /\ variant = "basic"
    /\ \E side \in {0, 1} : SetRefs(ResetFields(newPrior, newSimMode, side))
    /\ ev' = [NoEv EXCEPT !.kind = "reset", !.published = <<A_IDLE>>, !.didReset = TRUE]
    /\ senseCount' = 0
    /\ UNCHANGED <<variant, demoRef, demoEnabledRef, sinceSense>>
    /\ UNCHANGED notBidirVars

\* the Run button, shown while paused
start ==
    /\ ~runningRef
    /\ runningRef' = TRUE
    /\ ev' = [NoEv EXCEPT !.kind = "idle"]
    /\ UNCHANGED <<variant, priorRef, simModeRef, robotRef, beliefRef, actionRef, measRef,
                   elapsedRef, senseTimerRef, stubTimerRef, stubSideRef, verifyRef,
                   demoRef, demoEnabledRef, sinceSense, senseCount>>
    /\ UNCHANGED notBidirVars

\* the Pause button, shown while running
pause ==
    /\ runningRef
    /\ runningRef' = FALSE
    /\ ev' = [NoEv EXCEPT !.kind = "idle"]
    /\ UNCHANGED <<variant, priorRef, simModeRef, robotRef, beliefRef, actionRef, measRef,
                   elapsedRef, senseTimerRef, stubTimerRef, stubSideRef, verifyRef,
                   demoRef, demoEnabledRef, sinceSense, senseCount>>
    /\ UNCHANGED notBidirVars

\* the refs after beginDemoPhase(idx): reset(phase.prior, phase.mode); start()
BeginDemoFields(idx, side) ==
    [ResetFields(DEMO[idx + 1].prior, DEMO[idx + 1].mode, side) EXCEPT !.running = TRUE]

\* the Restart demo button: beginDemoPhase(0)
beginDemoPhase ==
    /\ variant = "demo"
    /\ demoEnabledRef
    /\ \E side \in {0, 1} : SetRefs(BeginDemoFields(0, side))
    /\ demoRef' = [phase |-> 0, reached |-> FALSE, hold |-> 0]
    /\ ev' = [NoEv EXCEPT !.kind = "reset", !.published = <<A_IDLE>>, !.didReset = TRUE]
    /\ senseCount' = 0
    /\ UNCHANGED <<variant, demoEnabledRef, sinceSense>>
    /\ UNCHANGED notBidirVars

\* the Exit demo button: setDemoEnabled(false), then the effects of the render:
\* demoEnabledRef.current = false and reset('WEAK', 'BIDIR')
exitDemo ==
    /\ variant = "demo"
    /\ demoEnabledRef
    /\ demoEnabledRef' = FALSE
    /\ \E side \in {0, 1} : SetRefs(ResetFields("WEAK", "BIDIR", side))
    /\ ev' = [NoEv EXCEPT !.kind = "reset", !.published = <<A_IDLE>>, !.didReset = TRUE]
    /\ senseCount' = 0
    /\ UNCHANGED <<variant, demoRef, sinceSense>>
    /\ UNCHANGED notBidirVars

\* the Start demo button: setDemoEnabled(true), then the effects of the render:
\* demoEnabledRef.current = true and beginDemoPhase(0)
startDemo ==
    /\ variant = "demo"
    /\ ~demoEnabledRef
    /\ demoEnabledRef' = TRUE
    /\ \E side \in {0, 1} : SetRefs(BeginDemoFields(0, side))
    /\ demoRef' = [phase |-> 0, reached |-> FALSE, hold |-> 0]
    /\ ev' = [NoEv EXCEPT !.kind = "reset", !.published = <<A_IDLE>>, !.didReset = TRUE]
    /\ senseCount' = 0
    /\ UNCHANGED <<variant, sinceSense>>
    /\ UNCHANGED notBidirVars

\* the panel as mounted: the basic panel after reset('WEAK', 'BIDIR'), the demo
\* panel after beginDemoPhase(0)
BidirInit ==
    /\ variant \in {"basic", "demo"}
    /\ \E side \in {0, 1} :
         LET f == IF variant = "demo" THEN BeginDemoFields(0, side)
                  ELSE ResetFields("WEAK", "BIDIR", side)
         IN  /\ runningRef = f.running
             /\ priorRef = f.prior
             /\ simModeRef = f.mode
             /\ robotRef = f.robot
             /\ beliefRef = f.belief
             /\ actionRef = f.action
             /\ measRef = f.meas
             /\ elapsedRef = f.elapsed
             /\ senseTimerRef = f.senseTimer
             /\ verifyRef = f.verify
             /\ stubTimerRef = f.stubTimer
             /\ stubSideRef = f.stubSide
    /\ demoRef = [phase |-> 0, reached |-> FALSE, hold |-> 0]
    /\ demoEnabledRef = (variant = "demo")
    /\ ev = NoEv
    /\ sinceSense = SENSE_PERIOD
    /\ senseCount = 0

\* no panel mounted: the variables of the panels while findPath is modelled
BidirParked ==
    /\ variant = "basic"
    /\ runningRef = FALSE
    /\ priorRef = "WEAK"
    /\ simModeRef = "BIDIR"
    /\ robotRef = START
    /\ beliefRef = <<500, 500>>
    /\ actionRef = A_IDLE
    /\ measRef = NoMeas
    /\ elapsedRef = 0
    /\ senseTimerRef = 0
    /\ verifyRef = FALSE
    /\ stubTimerRef = 0
    /\ stubSideRef = 0
    /\ demoRef = [phase |-> 0, reached |-> FALSE, hold |-> 0]
    /\ demoEnabledRef = FALSE
    /\ ev = NoEv
    /\ sinceSense = SENSE_PERIOD
    /\ senseCount = 0


(***************************************************************************)
(* Bidirectionality: the useGameLoop callback                              *)
(***************************************************************************)
\* TOP-DOWN in BIDIR mode, with the latch tested before the belief
BidirPolicy_ConfidenceFirst(b) ==
    IF Confident(b)
    THEN [target |-> IF b[1] >= b[2] THEN L1 ELSE L2,
          nextAction |-> IF b[1] >= b[2] THEN A_L1 ELSE A_L2]
    ELSE IF variant = "demo" /\ verifyRef
    THEN [target |-> VANTAGE, nextAction |-> A_VERIFY]
    ELSE [target |-> VANTAGE, nextAction |-> A_GO_V]

\* TOP-DOWN in BIDIR mode without the confidence test
BidirPolicy_AlwaysCommit(b) ==
    IF variant = "demo" /\ verifyRef
    THEN [target |-> VANTAGE, nextAction |-> A_VERIFY]
    ELSE [target |-> IF b[1] >= b[2] THEN L1 ELSE L2,
          nextAction |-> IF b[1] >= b[2] THEN A_L1 ELSE A_L2]

\* TOP-DOWN in BIDIR mode: verify at V while the latch is set (demo variant),
\* else commit to the favoured landmark when confident, else go to V
BidirPolicy(b) ==
    LET w1 == b[1]
        w2 == b[2]
        confident == Confident(b)
    IN  IF variant = "demo" /\ verifyRef
        THEN [target |-> VANTAGE, nextAction |-> A_VERIFY]
        ELSE IF confident
        THEN [target |-> IF w1 >= w2 THEN L1 ELSE L2,
              nextAction |-> IF w1 >= w2 THEN A_L1 ELSE A_L2]
        ELSE [target |-> VANTAGE, nextAction |-> A_GO_V]

\* TOP-DOWN in STUBBORN mode with the strong-wrong prior sent through the
\* dither branch
StubbornPolicy_WrongDithers(dt) ==
    LET t0 == stubTimerRef + dt
        flip == t0 > STUB_DITHER_PERIOD
        side == IF flip THEN 1 - stubSideRef ELSE stubSideRef
    IN  IF priorRef = "STRONG_CORRECT"
        THEN [stubTimer |-> stubTimerRef, stubSide |-> stubSideRef,
              target |-> L1, nextAction |-> A_STUB_L1]
        ELSE [stubTimer |-> IF flip THEN 0 ELSE t0, stubSide |-> side,
              target |-> IF side = 0 THEN L1 ELSE L2, nextAction |-> A_DITHER]

\* TOP-DOWN in STUBBORN mode with a dither timer that is not put back to 0
StubbornPolicy_NoRestart(dt) ==
    LET keep == [stubTimer |-> stubTimerRef, stubSide |-> stubSideRef]
        t0 == stubTimerRef + dt
        flip == t0 > STUB_DITHER_PERIOD
        side == IF flip THEN 1 - stubSideRef ELSE stubSideRef
    IN  IF priorRef = "STRONG_CORRECT"
        THEN keep @@ [target |-> L1, nextAction |-> A_STUB_L1]
        ELSE IF priorRef = "STRONG_WRONG"
        THEN keep @@ [target |-> L2, nextAction |-> A_STUB_L2]
        ELSE [stubTimer |-> t0, stubSide |-> side,
              target |-> IF side = 0 THEN L1 ELSE L2, nextAction |-> A_DITHER]

\* TOP-DOWN in STUBBORN mode: strong priors commit, the weak prior dithers.
\* The result carries the dither refs, which the WEAK branch advances.
StubbornPolicy(dt) ==
    LET keep == [stubTimer |-> stubTimerRef, stubSide |-> stubSideRef]
        t0 == stubTimerRef + dt
        flip == t0 > STUB_DITHER_PERIOD
        side == IF flip THEN 1 - stubSideRef ELSE stubSideRef
    IN  IF priorRef = "STRONG_CORRECT"
        THEN keep @@ [target |-> L1, nextAction |-> A_STUB_L1]
        ELSE IF priorRef = "STRONG_WRONG"
        THEN keep @@ [target |-> L2, nextAction |-> A_STUB_L2]
        ELSE [stubTimer |-> IF flip THEN 0 ELSE t0, stubSide |-> side,
              target |-> IF side = 0 THEN L1 ELSE L2, nextAction |-> A_DITHER]

\* TOP-DOWN: choose target (the mode is BIDIR or STUBBORN)
TopDown(b, dt) ==
    IF simModeRef = "BIDIR"
    THEN [stubTimer |-> stubTimerRef, stubSide |-> stubSideRef] @@ BidirPolicy(b)
    ELSE StubbornPolicy(dt)

\* setAction called on every tick
PolicyPublish_Always(nextAction, stored) == <<nextAction>>

\* if (nextAction !== actionRef.current) { actionRef.current = nextAction;
\* setAction(nextAction) }: the labels passed to setAction
PolicyPublish(nextAction, stored) ==
    IF nextAction # stored THEN <<nextAction>> ELSE <<>>

\* MOVE: turn toward the target at the turn rate, step along the new heading,
\* clamp to the world
Move(r, target, dt) ==
    LET dx == target.x - r.x
        dy == target.y - r.y
    IN  IF Dist2(target.x, target.y, r.x, r.y) > ARRIVE_EPS * ARRIVE_EPS
        THEN LET desired == Atan2(dy, dx)
                 dth == angleDiff(desired, r.theta)
                 maxTurn == (TURN_RATE10 * dt) \div 10
                 step == clamp(dth, -maxTurn, maxTurn)
                 theta == wrapPi(r.theta + step)
                 nx == r.x + RoundDiv(Cos(theta) * SPEED * dt * PS, 1000000)
                 ny == r.y + RoundDiv(Sin(theta) * SPEED * dt * PS, 1000000)
             IN  [x |-> clamp(nx, 10 * PS, (WORLD_W - 10) * PS),
                  y |-> clamp(ny, 10 * PS, (WORLD_H - 10) * PS),
                  theta |-> theta]
        ELSE r

\* shouldSense without the sense period
ShouldSense_NoTimer(mode, timer, inVantage) ==
    /\ mode # "STUBBORN"
    /\ mode = "BIDIR" /\ inVantage

\* shouldSense without the mode tests
ShouldSense_AnyMode(mode, timer, inVantage) ==
    /\ timer >= SENSE_PERIOD
    /\ inVantage

\* shouldSense
ShouldSense(mode, timer, inVantage) ==
    /\ mode # "STUBBORN"
    /\ timer >= SENSE_PERIOD
    /\ mode = "BIDIR" /\ inVantage

\* BOTTOM-UP: the measurement update of a tick in which shouldSense holds
BottomUp(b, z1, z2, inVantage) ==
    LET u == BeliefUpdate(b, z1, z2)
        nowConfident == Confident(u.b)
    IN  [b |-> u.b, updated |-> u.updated,
         verify |-> IF simModeRef = "BIDIR" /\ verifyRef /\ nowConfident
                    THEN FALSE ELSE verifyRef,
         meas |-> [winner |-> IF z1 <= z2 THEN "H1 (Near L1)" ELSE "H2 (Near L2)",
                   err1 |-> z1, err2 |-> z2, inVantage |-> inVantage]]

\* the else branch of shouldSense
NoSense(b) ==
    [b |-> b, updated |-> FALSE, verify |-> verifyRef,
     meas |-> IF simModeRef = "STUBBORN" /\ measRef # NoMeas THEN NoMeas ELSE measRef]

\* Demo progression: the demoRef after this tick, before a phase change
DemoProgress(r, dt) ==
    LET phase == DEMO[demoRef.phase + 1]
        goal == IF phase.goal = "L1" THEN L1 ELSE L2
        reached == demoRef.reached \/ Within(goal, r, DEMO_GOAL_RADIUS)
        hold0 == IF ~demoRef.reached /\ Within(goal, r, DEMO_GOAL_RADIUS)
                 THEN 0 ELSE demoRef.hold
    IN  [phase |-> demoRef.phase, reached |-> reached,
         hold |-> IF reached THEN hold0 + dt ELSE hold0]

\* a band without its upper end
OutOfBand_NoUpper(dt) == dt <= 0

\* dt <= 0 || dt > 0.25
OutOfBand(dt) == dt <= 0 \/ dt > 250

\* a frame that the callback returns from at once: paused, or dt outside the band
TickSkipped ==
    /\ \E dt \in DtSet :
         /\ ~runningRef \/ OutOfBand(dt)
         /\ ev' = [NoEv EXCEPT !.kind = "idle"]
    /\ UNCHANGED <<variant, priorRef, simModeRef, runningRef, robotRef, beliefRef,
                   actionRef, measRef, elapsedRef, senseTimerRef, stubTimerRef,
                   stubSideRef, verifyRef, demoRef, demoEnabledRef, sinceSense, senseCount>>
    /\ UNCHANGED notBidirVars

\* a frame that runs the whole callback; z holds the measurement's errors in
\* sigmas (randn), side the Math.random() draw of a reset made by this tick
Tick ==
    \E dt \in DtSet, z \in SensePairs, side \in {0, 1} :
      /\ runningRef
      /\ ~OutOfBand(dt)
      /\ elapsedRef < MaxElapsed * 1000
      /\ LET mode == simModeRef
             td == TopDown(beliefRef, dt)
             pub == PolicyPublish(td.nextAction, actionRef)
             r == Move(robotRef, td.target, dt)
             inVantage == Within(VANTAGE, r, V_SENSE_RADIUS)
             timer == senseTimerRef + dt
             sense == ShouldSense(mode, timer, inVantage)
             bu == IF sense THEN BottomUp(beliefRef, z[1], z[2], inVantage)
                   ELSE NoSense(beliefRef)
             elapsed == elapsedRef + dt
             dp == DemoProgress(r, dt)
             phaseEnd == variant = "demo" /\ demoEnabledRef /\ dp.reached
                         /\ dp.hold >= DEMO_HOLD_AFTER_GOAL
             next == (demoRef.phase + 1) % Len(DEMO)
             autoLoop == /\ ~phaseEnd
                         /\ variant = "basic" \/ ~demoEnabledRef
                         /\ elapsed > AUTO_LOOP_MS
             after == [running |-> TRUE, prior |-> priorRef, mode |-> mode,
                       robot |-> r, belief |-> bu.b,
                       action |-> IF pub = <<>> THEN actionRef ELSE pub[1],
                       meas |-> bu.meas, elapsed |-> elapsed,
                       senseTimer |-> IF sense THEN 0 ELSE timer,
                       verify |-> bu.verify, stubTimer |-> td.stubTimer,
                       stubSide |-> td.stubSide]
         IN  /\ (sense /\ senseCount < MaxNoisy) \/ z = NoiseFree
             /\ phaseEnd \/ autoLoop \/ side = 0
             /\ SetRefs(IF phaseEnd THEN BeginDemoFields(next, side)
                        ELSE IF autoLoop THEN ResetFields(priorRef, mode, side)
                        ELSE after)
             /\ demoRef' = IF phaseEnd THEN [phase |-> next, reached |-> FALSE, hold |-> 0]
                           ELSE IF variant = "demo" /\ demoEnabledRef THEN dp
                           ELSE demoRef
             /\ ev' = [kind |-> "tick", dt |-> dt, target |-> td.target.label,
                       nextAction |-> td.nextAction,
                       published |-> IF phaseEnd \/ autoLoop THEN pub \o <<A_IDLE>> ELSE pub,
                       sensed |-> sense, updated |-> bu.updated,
                       inVantage |-> inVantage, timer |-> timer,
                       didReset |-> phaseEnd \/ autoLoop]
             /\ sinceSense' = IF sense THEN 0 ELSE Min2(sinceSense + dt, SENSE_PERIOD)
             /\ senseCount' = IF phaseEnd \/ autoLoop THEN 0
                              ELSE IF sense THEN Min2(senseCount + 1, MaxNoisy)
                              ELSE senseCount
      /\ UNCHANGED <<variant, demoEnabledRef>>
      /\ UNCHANGED notBidirVars

BidirNext ==
    \/ Tick
    \/ TickSkipped
    \/ \E p \in Priors : reset(p, simModeRef)
    \/ \E m \in Modes : reset(priorRef, m)
    \/ start
    \/ pause
    \/ beginDemoPhase
    \/ exitDemo
    \/ startDemo

(***************************************************************************)
(* Level2Auto (TabViews/Limitations.js): the scripted demo                 *)
(*                                                                         *)
(* Time is in milliseconds, the odometry estimate in 1/1000 pixel, the     *)
(* drift in 1/1000 pixel per second.  flash, isBeaconing and the copies    *)
(* made by setAgent/setOdoEst/setTrail/setOdoTrail are only rendered.      *)
(***************************************************************************)
LA_WORLD_W == 1000

LA_WORLD_H == 720

LA_MARGIN == 40

LA_HOME == [x |-> (LA_WORLD_W - 140) * PS, y |-> (LA_WORLD_H - 120) * PS]

LANDMARK == [x |-> 210 * PS, y |-> 170 * PS]

LANDMARK_LOCK_R == 18

LA_SPEED == 90

\* TURN_RATE = 3.6 rad/s, times ten
LA_TURN_RATE10 == 36

TRAIL_MAX == 900

TRAIL_SAMPLE_DT == 45

\* the upper limit of clamp(dt, 0, 0.05)
LA_DT_CAP == 50

\* the initial heading -Math.PI * 0.75
LA_THETA0 == -((3 * Pi) \div 4)

\* DRIFT_WIND = 1.7, in 1/1000 pixel per second
DRIFT_WIND == 1700

DEMO_SEQUENCE == <<
    [id |-> "INTRO",       duration |-> 1800, phase |-> "IDLE",     mode |-> "ODOMETRY", resetOnEnter |-> FALSE],
    [id |-> "ODO_OUT",     duration |-> 7000, phase |-> "OUTBOUND", mode |-> "ODOMETRY", resetOnEnter |-> TRUE],
    [id |-> "ODO_RET",     duration |-> 7000, phase |-> "RETURN",   mode |-> "ODOMETRY", resetOnEnter |-> FALSE],
    [id |-> "ODO_HOLD",    duration |-> 2200, phase |-> "HOLD",     mode |-> "ODOMETRY", resetOnEnter |-> FALSE],
    [id |-> "TO_COMPASS",  duration |-> 1400, phase |-> "RESET",    mode |-> "ODOMETRY", resetOnEnter |-> FALSE],
    [id |-> "COM_OUT",     duration |-> 6000, phase |-> "OUTBOUND", mode |-> "COMPASS",  resetOnEnter |-> TRUE],
    [id |-> "COM_RET",     duration |-> 6200, phase |-> "RETURN",   mode |-> "COMPASS",  resetOnEnter |-> FALSE],
    [id |-> "COM_HOLD",    duration |-> 1800, phase |-> "HOLD",     mode |-> "COMPASS",  resetOnEnter |-> FALSE],
    [id |-> "TO_LANDMARK", duration |-> 1400, phase |-> "RESET",    mode |-> "COMPASS",  resetOnEnter |-> FALSE],
    [id |-> "LM_OUT",      duration |-> 7200, phase |-> "OUTBOUND", mode |-> "LANDMARK", resetOnEnter |-> TRUE],
    [id |-> "LM_RET",      duration |-> 9000, phase |-> "RETURN",   mode |-> "LANDMARK", resetOnEnter |-> FALSE],
    [id |-> "LM_HOLD",     duration |-> 2000, phase |-> "HOLD",     mode |-> "LANDMARK", resetOnEnter |-> FALSE],
    [id |-> "LOOP_RESET",  duration |-> 1200, phase |-> "RESET",    mode |-> "LANDMARK", resetOnEnter |-> FALSE] >>

\* DEMO_SEQUENCE[idx], idx counted from 0
StepAt(idx) == DEMO_SEQUENCE[idx + 1]

\* a gate that pauses the physics in the IDLE steps only
Paused_IdleOnly(step) == step.phase = "IDLE"

\* curStep.phase === 'IDLE' || ... 'HOLD' || ... 'RESET'
Paused(step) == step.phase \in {"IDLE", "HOLD", "RESET"}

\* the six food places drawn at mount, MARGIN + Math.random() * (0.40 W or H):
\* 1: a near first place, reached within the outbound phase; 2: far places
FoodLayouts == <<
    << [x |-> 4400, y |-> 3280], [x |-> 4000, y |-> 2600], [x |-> 3000, y |-> 3200],
       [x |-> 2000, y |-> 1000], [x |-> 400, y |-> 400],   [x |-> 4400, y |-> 400] >>,
    << [x |-> 400, y |-> 400],   [x |-> 4400, y |-> 3280], [x |-> 2100, y |-> 1700],
       [x |-> 1000, y |-> 3000], [x |-> 3000, y |-> 500],  [x |-> 400, y |-> 3280] >> >>

\* the frame period of the host (ms); 1000 is a throttled host, whose
\* delta-times are cut down to the cap
FramePeriods == {30, 1000}

\* the draws of randn() of one run, in 1/1000: <<heading, drift x, drift y>>
NoiseSamples == { <<0, 0, 0>>, <<1000, -1000, 500>> }

\* the delta-time counted by simTime stops this far (ms) past one round
MaxOverrun == 1000

RECURSIVE SumDurations(_)
SumDurations(i) == IF i = 0 THEN 0 ELSE DEMO_SEQUENCE[i].duration + SumDurations(i - 1)

\* d1 + ... + dN
SeqTotal == SumDurations(Len(DEMO_SEQUENCE))

\* clamp(dtRaw > 1 ? dtRaw / 1000 : dtRaw, 0, 0.05), in ms
AutoDt(dtRaw) == clamp(IF dtRaw > 1 THEN dtRaw ELSE dtRaw * 1000, 0, LA_DT_CAP)

\* the sub-state resetSim() leaves
resetSim ==
    [agent |-> [x |-> LA_HOME.x, y |-> LA_HOME.y, theta |-> LA_THETA0],
     odo |-> [x |-> 0, y |-> 0],
     trail |-> << [x |-> LA_HOME.x, y |-> LA_HOME.y] >>,
     odoTrail |-> << [x |-> LA_HOME.x, y |-> LA_HOME.y] >>,
     drift |-> [bx |-> 0, by |-> 0],
     lmLocked |-> FALSE,
     foodIdx |-> 0,
     trailAcc |-> 0,
     desiredAngle |-> LA_THETA0,
     homeBearing |-> 0]

\* a timeline that moves on as soon as the duration is reached
AutoTimeline_Eager(seq, dt) ==
    LET t == seq.t + dt
    IN  IF t >= StepAt(seq.idx).duration
        THEN [idx |-> (seq.idx + 1) % Len(DEMO_SEQUENCE), t |-> 0, entered |-> TRUE]
        ELSE [idx |-> seq.idx, t |-> t, entered |-> FALSE]

\* 1) the demo timeline: the step index and the time in the step after dt
AutoTimeline(seq, dt) ==
    LET t == seq.t + dt
    IN  IF t > StepAt(seq.idx).duration
        THEN [idx |-> (seq.idx + 1) % Len(DEMO_SEQUENCE), t |-> 0, entered |-> TRUE]
        ELSE [idx |-> seq.idx, t |-> t, entered |-> FALSE]

\* entering a step without the reset
EnterStep_NoReset(s, tl) == s

\* if (nextStep.resetOnEnter) resetSim()
EnterStep(s, tl) == IF tl.entered /\ StepAt(tl.idx).resetOnEnter THEN resetSim ELSE s

\* the heading wanted by the phase logic, with the fields it writes
AutoSteer(s, step, nz) ==
    LET a == s.agent
        home == Atan2(-RoundDiv(s.odo.y, 100), -RoundDiv(s.odo.x, 100))
    IN  IF step.phase = "OUTBOUND"
        THEN LET target == foods[s.foodIdx + 1]
             IN  [s EXCEPT !.foodIdx = IF Dist2(target.x, target.y, a.x, a.y) < (18 * PS) * (18 * PS)
                                       THEN (s.foodIdx + 1) % Len(foods) ELSE s.foodIdx,
                           !.desiredAngle = Atan2(target.y - a.y, target.x - a.x) + RoundDiv(nz[1], 4)]
        ELSE IF step.phase = "RETURN" /\ step.mode = "COMPASS"
        THEN [s EXCEPT !.desiredAngle = Atan2(LA_HOME.y - a.y, LA_HOME.x - a.x)]
        ELSE IF step.phase = "RETURN" /\ step.mode = "ODOMETRY"
        THEN [s EXCEPT !.desiredAngle = home]
        ELSE IF step.phase = "RETURN" /\ step.mode = "LANDMARK"
        THEN IF ~s.lmLocked
             THEN LET lock == Dist2(a.x, a.y, LANDMARK.x, LANDMARK.y) <
                              ((LANDMARK_LOCK_R + 6) * PS) * ((LANDMARK_LOCK_R + 6) * PS)
                  IN  [s EXCEPT !.desiredAngle = Atan2(LANDMARK.y - a.y, LANDMARK.x - a.x),
                                !.lmLocked = lock,
                                !.odo = IF lock THEN [x |-> (a.x - LA_HOME.x) * 100,
                                                      y |-> (a.y - LA_HOME.y) * 100]
                                        ELSE s.odo]
             ELSE [s EXCEPT !.desiredAngle = home]
        ELSE [s EXCEPT !.desiredAngle = a.theta]

\* soft wall avoidance: a probe 42 px ahead that leaves the world turns the
\* wanted heading to the middle of the world
AutoAvoid(s) ==
    LET a == s.agent
        probeX == a.x + RoundDiv(Cos(s.desiredAngle) * 42 * PS, 1000)
        probeY == a.y + RoundDiv(Sin(s.desiredAngle) * 42 * PS, 1000)
    IN  IF \/ clamp(probeX, LA_MARGIN * PS, (LA_WORLD_W - LA_MARGIN) * PS) # probeX
           \/ clamp(probeY, LA_MARGIN * PS, (LA_WORLD_H - LA_MARGIN) * PS) # probeY
        THEN Atan2((LA_WORLD_H \div 2) * PS - a.y, (LA_WORLD_W \div 2) * PS - a.x)
        ELSE s.desiredAngle

\* the clamp of the new position to the world
AutoClamp(v, lo, hi) == clamp(v, lo, hi)

\* move agent: turn at most TURN_RATE * dt, then step and clamp to the world
AutoMoveAgent(a, desired, step, locked, dt) ==
    LET maxTurn == (LA_TURN_RATE10 * dt) \div 10
        theta == wrapPi(a.theta + clamp(angleDiff(desired, a.theta), -maxTurn, maxTurn))
        canAutoStop == step.mode = "COMPASS" \/ (step.mode = "LANDMARK" /\ locked)
        speedNow == IF /\ step.phase = "RETURN"
                       /\ canAutoStop
                       /\ Dist2(a.x, a.y, LA_HOME.x, LA_HOME.y) < (14 * PS) * (14 * PS)
                    THEN 0 ELSE LA_SPEED
    IN  [x |-> AutoClamp(a.x + RoundDiv(Cos(theta) * speedNow * dt * PS, 1000000),
                         LA_MARGIN * PS, (LA_WORLD_W - LA_MARGIN) * PS),
         y |-> AutoClamp(a.y + RoundDiv(Sin(theta) * speedNow * dt * PS, 1000000),
                         LA_MARGIN * PS, (LA_WORLD_H - LA_MARGIN) * PS),
         theta |-> theta]

\* s.trail.push(p); if (s.trail.length > TRAIL_MAX) s.trail.shift()
PushTrail(tr, p) ==
    LET t == Append(tr, p) IN IF Len(t) > TRAIL_MAX THEN Tail(t) ELSE t

\* odometry with bias and noise, then the trails, after the move to agent a1
AutoOdometry(s, a1, step, dt, nz) ==
    LET bx == s.drift.bx + RoundDiv((RoundDiv(nz[2] * 13, 10) + DRIFT_WIND) * dt, 1000)
        by == s.drift.by + RoundDiv((RoundDiv(nz[3] * 13, 10) + DRIFT_WIND) * dt, 1000)
        noiseScale == IF step.mode \in {"ODOMETRY", "LANDMARK"} THEN 1 ELSE 0
        ox == s.odo.x + (a1.x - s.agent.x) * 100 + RoundDiv(bx * dt * noiseScale, 1000)
        oy == s.odo.y + (a1.y - s.agent.y) * 100 + RoundDiv(by * dt * noiseScale, 1000)
        sample == s.trailAcc + dt >= TRAIL_SAMPLE_DT
    IN  [s EXCEPT !.agent = a1,
                  !.drift = [bx |-> bx, by |-> by],
                  !.odo = [x |-> ox, y |-> oy],
                  !.trailAcc = IF sample THEN 0 ELSE s.trailAcc + dt,
                  !.trail = IF sample THEN PushTrail(s.trail, [x |-> a1.x, y |-> a1.y])
                            ELSE s.trail,
                  !.odoTrail = IF sample
                               THEN PushTrail(s.odoTrail, [x |-> LA_HOME.x + RoundDiv(ox, 100),
                                                           y |-> LA_HOME.y + RoundDiv(oy, 100)])
                               ELSE s.odoTrail]

\* 2) the simulation logic of one frame in a motion step
AutoSimulate(s, step, dt, nz) ==
    LET s1 == AutoSteer(s, step, nz)
        hb == Atan2(LA_HOME.y - s.agent.y, LA_HOME.x - s.agent.x)
        s2 == [s1 EXCEPT !.desiredAngle = AutoAvoid(s1), !.homeBearing = hb]
    IN  AutoOdometry(s2, AutoMoveAgent(s2.agent, s2.desiredAngle, step, s2.lmLocked, dt),
                     step, dt, nz)

\* the observation of a component which has just been mounted
NoAutoEv == [kind |-> "mount", dt |-> 0, entered |-> FALSE, atMotion |-> resetSim,
             moved |-> FALSE]

\* mount: the first render and the effect that draws the foods and calls resetSim()
AutoInit ==
    /\ foods \in {FoodLayouts[i] : i \in 1..Len(FoodLayouts)}
    /\ framePeriod \in FramePeriods
    /\ noise \in NoiseSamples
    /\ seqRef = [idx |-> 0, t |-> 0]
    /\ stateRef = resetSim
    /\ simTime = 0
    /\ autoEv = NoAutoEv

\* the useGameLoop callback of Level2Auto: a frame of the host, or a frame
\* with no time passed
AutoTick ==
    \E dtRaw \in {0, framePeriod} :
        LET dt == AutoDt(dtRaw)
            tl == AutoTimeline(seqRef, dt)
            s1 == EnterStep(stateRef, tl)
            step == StepAt(tl.idx)
        IN  /\ seqRef' = [idx |-> tl.idx, t |-> tl.t]
            /\ stateRef' = IF Paused(step) THEN s1 ELSE AutoSimulate(s1, step, dt, noise)
            /\ simTime' = Min2(simTime + dt, SeqTotal + MaxOverrun)
            /\ autoEv' = [kind |-> "tick", dt |-> dt, entered |-> tl.entered,
                          atMotion |-> IF tl.entered /\ step.resetOnEnter THEN s1 ELSE resetSim,
                          moved |-> ~Paused(step)]
            /\ UNCHANGED <<foods, framePeriod, noise>>
            /\ UNCHANGED notAutoVars

\* Level2Auto is not mounted
AutoParked ==
    /\ foods = <<>>
    /\ framePeriod = 0
    /\ noise = <<0, 0, 0>>
    /\ seqRef = [idx |-> 0, t |-> 0]
    /\ stateRef = resetSim
    /\ simTime = 0
    /\ autoEv = NoAutoEv

(***************************************************************************)
(* Level3 (part_001, lines 1085-1304) and its automated demo (lines        *)
(* 1306-1854)                                                              *)
(*                                                                         *)
(* The components keep their state in useState; the callback of a frame    *)
(* reads the values of the last render.  A handler is modelled together    *)
(* with the render it causes and the effects that run after that render.   *)
(***************************************************************************)
NodeIds == {"start", "n1", "n2", "n3", "n4", "center", "n5", "n6", "goal_A", "goal_B"}

GRAPH_NODES ==
    [id \in NodeIds |->
        CASE id = "start"  -> [x |-> 50 * PS,  y |-> 50 * PS,  neighbors |-> <<"n1", "n2">>]
          [] id = "n1"     -> [x |-> 150 * PS, y |-> 50 * PS,  neighbors |-> <<"start", "n3">>]
          [] id = "n2"     -> [x |-> 50 * PS,  y |-> 150 * PS, neighbors |-> <<"start", "n4">>]
          [] id = "n3"     -> [x |-> 250 * PS, y |-> 50 * PS,  neighbors |-> <<"n1", "n5", "center">>]
          [] id = "n4"     -> [x |-> 50 * PS,  y |-> 250 * PS, neighbors |-> <<"n2", "n6">>]
          [] id = "center" -> [x |-> 200 * PS, y |-> 150 * PS, neighbors |-> <<"n3", "n6", "n5">>]
          [] id = "n5"     -> [x |-> 350 * PS, y |-> 50 * PS,  neighbors |-> <<"n3", "goal_A">>]
          [] id = "n6"     -> [x |-> 200 * PS, y |-> 250 * PS, neighbors |-> <<"n4", "center", "goal_B">>]
          [] id = "goal_A" -> [x |-> 350 * PS, y |-> 150 * PS, neighbors |-> <<"n5">>]
          [] id = "goal_B" -> [x |-> 200 * PS, y |-> 280 * PS, neighbors |-> <<"n6">>]]

START_POS == [x |-> 50 * PS, y |-> 50 * PS]

\* { ...START_POS, theta: 0 }
StartAgent == [x |-> START_POS.x, y |-> START_POS.y, theta |-> 0]

\* the obstacle { x: 100, y: 100, w: 20, h: 100 }
obstacles == << [x |-> 100 * PS, y |-> 100 * PS, w |-> 20 * PS, h |-> 100 * PS] >>

\* the point-containment test of the collision loops (strict on every side)
InsideObstacle(px, py) ==
    \E i \in 1..Len(obstacles) :
        /\ px > obstacles[i].x /\ px < obstacles[i].x + obstacles[i].w
        /\ py > obstacles[i].y /\ py < obstacles[i].y + obstacles[i].h

\* the memorised route
LearnedRoute == <<"start", "n1", "n3", "n5", "goal_A">>

\* findPath(GRAPH_NODES, 'start', targetId): the shortest path of the graph
\* (to goal_A 400 px along n1, n3, n5; to goal_B 380 px along n2, n4, n6)
GraphPath(targetId) ==
    IF targetId = "goal_A" THEN <<"start", "n1", "n3", "n5", "goal_A">>
    ELSE <<"start", "n2", "n4", "n6", "goal_B">>

\* GRAPH_NODES['n5'].neighbors = ['n3', 'goal_A'] and
\* GRAPH_NODES['n6'].neighbors = ['n4', 'center', 'goal_B']: the goals linked
ShippedLinks == {"goal_A", "goal_B"}

\* return null
NoPath == <<"null">>

\* findPath(GRAPH_NODES, 'start', targetId): a goal is a leaf of the graph,
\* reached through n5 or n6 only; without that link the open set runs empty
findPathOnGraph(targetId) ==
    IF targetId \in goalLinks THEN GraphPath(targetId) ELSE NoPath

\* p || [] with the memorised route in the place of the empty one
OrEmpty_Learned(p) == IF p = NoPath THEN LearnedRoute ELSE p

\* p || []
OrEmpty(p) == IF p = NoPath THEN <<>> ELSE p

\* recalculatePath(targetId) in mode m: the planned path it sets
PlannedFor(m, targetId) ==
    IF m = "MAP" THEN OrEmpty(findPathOnGraph(targetId))
    ELSE IF m = "ROUTE" THEN LearnedRoute
    ELSE <<>>

\* the frame periods of the host (ms): a regular one and that of a throttled
\* host; Level3, whose buttons work at any time, is followed in coarser frames
L3DtSet == IF l3variant = "demo" THEN {50, 1000} ELSE {250, 1000}

\* the mode and goal buttons of Level3 are pressed at most this often
MaxCommands == 2

L3Modes == {"VECTOR", "ROUTE", "MAP"}

\* speed = 0.1 * dt (Level3) and 0.15 * dt (the demo), in 1/1000 px per ms
L3Speed == IF l3variant = "demo" THEN 150 ELSE 100

\* a step of length speed * dt from agent a towards (tx, ty)
StepTowards(a, tx, ty, dt) ==
    LET angle == Atan2(ty - a.y, tx - a.x)
    IN  [a EXCEPT !.x = a.x + RoundDiv(Cos(angle) * L3Speed * dt, 1000000 \div PS),
                  !.y = a.y + RoundDiv(Sin(angle) * L3Speed * dt, 1000000 \div PS)]

\* if the new position is inside an obstacle the position is taken back
RevertIfInside(a, n) == IF InsideObstacle(n.x, n.y) THEN a ELSE n

\* update angle for display: theta follows a move of more than 0.1 px
WithTheta(a, n) ==
    IF Dist2(n.x, n.y, a.x, a.y) > 1
    THEN [n EXCEPT !.theta = Atan2(n.y - a.y, n.x - a.x)]
    ELSE n

\* the ROUTE/MAP branch: the cursor moves on within 5 px of the node,
\* otherwise the agent steps towards the node
FollowPath(a, pp, idx, dt) ==
    IF Len(pp) > 0 /\ idx < Len(pp)
    THEN LET node == GRAPH_NODES[pp[idx + 1]]
         IN  IF Dist2(node.x, node.y, a.x, a.y) < (5 * PS) * (5 * PS)
             THEN [agent |-> a, idx |-> IF idx < Len(pp) - 1 THEN idx + 1 ELSE idx]
             ELSE [agent |-> StepTowards(a, node.x, node.y, dt), idx |-> idx]
    ELSE [agent |-> a, idx |-> idx]

NoL3Ev == [kind |-> "mount", dt |-> 0, cmds |-> 0]

\* callbackRef.current is the callback of the last render
Latest == [held |-> "latest"]

\* ------------------------------ Level3 ---------------------------------
\* the useGameLoop callback of Level3
L3Tick ==
    /\ l3variant = "basic"
    /\ \E dt \in {frameMs} :
         LET goalPos == GRAPH_NODES[goalId]
             f == IF l3mode = "VECTOR"
                  THEN [agent |-> RevertIfInside(agent, StepTowards(agent, goalPos.x, goalPos.y, dt)),
                        idx |-> currentPathIndex]
                  ELSE FollowPath(agent, plannedPath, currentPathIndex, dt)
         IN  /\ agent' = WithTheta(agent, f.agent)
             /\ currentPathIndex' = f.idx
             /\ l3ev' = [kind |-> "tick", dt |-> dt, cmds |-> l3ev.cmds]
    /\ UNCHANGED <<goalLinks, l3variant, goalId, l3mode, plannedPath, isRunning, demoPhase, isStuck,
                   vectorTarget, pendingTimer, frameMs>>
    /\ UNCHANGED notL3Vars

\* the effect of lines 1152-1154 after a change of goalId or mode
AfterGoalOrMode(m, g) ==
    /\ plannedPath' = PlannedFor(m, g)
    /\ currentPathIndex' = IF m = "VECTOR" THEN currentPathIndex ELSE 0

\* a mode button: setMode(m)
setMode(m) ==
    /\ l3variant = "basic"
    /\ m # l3mode
    /\ l3ev.cmds < MaxCommands
    /\ l3mode' = m
    /\ AfterGoalOrMode(m, goalId)
    /\ l3ev' = [kind |-> "ui", dt |-> 0, cmds |-> l3ev.cmds + 1]
    /\ UNCHANGED <<goalLinks, l3variant, agent, goalId, isRunning, demoPhase, isStuck, vectorTarget, pendingTimer, frameMs>>
    /\ UNCHANGED notL3Vars

\* the Move Goal button
randomizeGoal ==
    /\ l3variant = "basic"
    /\ l3ev.cmds < MaxCommands
    /\ goalId' = IF goalId = "goal_A" THEN "goal_B" ELSE "goal_A"
    /\ AfterGoalOrMode(l3mode, goalId')
    /\ l3ev' = [kind |-> "ui", dt |-> 0, cmds |-> l3ev.cmds + 1]
    /\ UNCHANGED <<goalLinks, l3variant, agent, l3mode, isRunning, demoPhase, isStuck, vectorTarget, pendingTimer, frameMs>>
    /\ UNCHANGED notL3Vars

\* the Reset Agent button
resetAgent ==
    /\ l3variant = "basic"
    /\ agent' = StartAgent
    /\ currentPathIndex' = 0
    /\ l3ev' = [kind |-> "ui", dt |-> 0, cmds |-> l3ev.cmds]
    /\ UNCHANGED <<goalLinks, l3variant, goalId, l3mode, plannedPath, isRunning, demoPhase, isStuck,
                   vectorTarget, pendingTimer, frameMs>>
    /\ UNCHANGED notL3Vars

\* ------------------------- the automated demo --------------------------
MovementPhases == {"VECTOR_TO_GOAL", "VECTOR_RETURN_TO_START", "VECTOR_TO_NEW_GOAL",
                   "ROUTE_TO_GOAL", "ROUTE_WRONG_GOAL", "MAP_TO_GOAL_A", "MAP_TO_GOAL_B"}

movementEnabled == isRunning /\ demoPhase \in MovementPhases

\* the state of the demo component as one record
DemoState ==
    [agent |-> agent, goalId |-> goalId, mode |-> l3mode, plannedPath |-> plannedPath,
     currentPathIndex |-> currentPathIndex, isRunning |-> isRunning,
     demoPhase |-> demoPhase, isStuck |-> isStuck, vectorTarget |-> vectorTarget,
     timer |-> pendingTimer]

SetDemoState(d) ==
    /\ agent' = d.agent
    /\ goalId' = d.goalId
    /\ l3mode' = d.mode
    /\ plannedPath' = d.plannedPath
    /\ currentPathIndex' = d.currentPathIndex
    /\ isRunning' = d.isRunning
    /\ demoPhase' = d.demoPhase
    /\ isStuck' = d.isStuck
    /\ vectorTarget' = d.vectorTarget
    /\ pendingTimer' = d.timer

\* Math.hypot(target.x - agent.x, target.y - agent.y) < 10
Reached(a, p) == Dist2(p.x, p.y, a.x, a.y) < (10 * PS) * (10 * PS)

hasReachedPathEnd(d) ==
    /\ Len(d.plannedPath) > 0
    /\ Reached(d.agent, GRAPH_NODES[d.plannedPath[Len(d.plannedPath)]])

\* the phase entry effect (lines 1504-1645) on a change of demoPhase or
\* isRunning: the timers of the phase left are cleared, then the set-up of
\* the phase entered; timer names the phase whose timeout is pending
PhaseEntry(d) ==
    LET c == [d EXCEPT !.timer = "none"]
        p == d.demoPhase
    IN  IF ~d.isRunning THEN c
        ELSE IF p = "VECTOR_TO_GOAL"
        THEN [c EXCEPT !.mode = "VECTOR", !.goalId = "goal_A", !.isStuck = FALSE,
                       !.vectorTarget = "goal"]
        ELSE IF p = "VECTOR_RETURN_TO_START"
        THEN [c EXCEPT !.vectorTarget = "hold", !.timer = p]
        ELSE IF p = "VECTOR_GOAL_MOVING"
        THEN [c EXCEPT !.vectorTarget = "hold", !.isStuck = FALSE, !.goalId = "goal_B",
                       !.timer = p]
        ELSE IF p = "VECTOR_TO_NEW_GOAL"
        THEN [c EXCEPT !.mode = "VECTOR", !.isStuck = FALSE, !.vectorTarget = "goal",
                       !.timer = p]
        ELSE IF p = "VECTOR_STUCK_WAIT"
        THEN [c EXCEPT !.vectorTarget = "hold", !.timer = p]
        ELSE IF p = "RESET_FOR_ROUTE"
        THEN [c EXCEPT !.agent = StartAgent, !.goalId = "goal_A", !.mode = "ROUTE",
                       !.isStuck = FALSE, !.plannedPath = LearnedRoute,
                       !.currentPathIndex = 0, !.timer = p]
        ELSE IF p = "GOAL_MOVED_ROUTE"
        THEN [c EXCEPT !.goalId = "goal_B", !.agent = StartAgent, !.currentPathIndex = 0,
                       !.timer = p]
        ELSE IF p = "ROUTE_WRONG_WAIT"
        THEN [c EXCEPT !.timer = p]
        ELSE IF p = "RESET_FOR_MAP"
        THEN [c EXCEPT !.agent = StartAgent, !.goalId = "goal_A", !.mode = "MAP",
                       !.isStuck = FALSE, !.plannedPath = OrEmpty(findPathOnGraph("goal_A")),
                       !.currentPathIndex = 0, !.timer = p]
        ELSE IF p = "GOAL_MOVED_MAP"
        THEN [c EXCEPT !.goalId = "goal_B", !.agent = StartAgent,
                       !.plannedPath = OrEmpty(findPathOnGraph("goal_B")), !.currentPathIndex = 0,
                       !.timer = p]
        ELSE c

\* the phase transition effect (lines 1651-1702): the phase and isRunning it sets
PhaseTransition(d) ==
    LET p == d.demoPhase
        to(q) == [demoPhase |-> q, isRunning |-> TRUE]
    IN  IF ~d.isRunning THEN [demoPhase |-> p, isRunning |-> FALSE]
        ELSE IF p = "VECTOR_TO_GOAL" /\ Reached(d.agent, GRAPH_NODES["goal_A"])
        THEN to("VECTOR_RETURN_TO_START")
        ELSE IF p = "VECTOR_RETURN_TO_START" /\ d.vectorTarget = "start"
                /\ Reached(d.agent, START_POS)
        THEN to("VECTOR_GOAL_MOVING")
        ELSE IF p = "ROUTE_TO_GOAL" /\ hasReachedPathEnd(d) THEN to("GOAL_MOVED_ROUTE")
        ELSE IF p = "ROUTE_WRONG_GOAL" /\ hasReachedPathEnd(d) THEN to("ROUTE_WRONG_WAIT")
        ELSE IF p = "MAP_TO_GOAL_A" /\ Reached(d.agent, GRAPH_NODES["goal_A"])
        THEN to("GOAL_MOVED_MAP")
        ELSE IF p = "MAP_TO_GOAL_B" /\ Reached(d.agent, GRAPH_NODES["goal_B"])
        THEN [demoPhase |-> "DEMO_COMPLETE", isRunning |-> FALSE]
        ELSE to(p)

\* the effect of lines 1428-1431: outside the demo a change of goalId or mode
\* plans the path again
PlanOutsideDemo(prev, d) ==
    IF ~d.isRunning /\ (d.goalId # prev.goalId \/ d.mode # prev.mode)
    THEN [d EXCEPT !.plannedPath = PlannedFor(d.mode, d.goalId),
                   !.currentPathIndex = IF d.mode = "VECTOR" THEN d.currentPathIndex ELSE 0]
    ELSE d

\* the render of state d after state prev and the effects that follow it, up
\* to the render that changes nothing
RECURSIVE Settle(_, _, _)
Settle(prev, d, fuel) ==
    LET q == PlanOutsideDemo(prev, d)
        e == IF d.demoPhase # prev.demoPhase \/ d.isRunning # prev.isRunning
             THEN PhaseEntry(q) ELSE q
        t == PhaseTransition(d)
        n == [e EXCEPT !.demoPhase = t.demoPhase, !.isRunning = t.isRunning]
    IN  IF n = d \/ fuel = 0 THEN n ELSE Settle(d, n, fuel - 1)

\* the useGameLoop callback of the demo
DemoTick ==
    /\ l3variant = "demo"
    /\ \E dt \in {frameMs} :
         LET goalPos == GRAPH_NODES[goalId]
             target == IF vectorTarget = "start" THEN START_POS ELSE goalPos
             stepped == StepTowards(agent, target.x, target.y, dt)
             f == IF ~movementEnabled \/ (l3mode = "VECTOR" /\ vectorTarget = "hold")
                  THEN [agent |-> agent, idx |-> currentPathIndex]
                  ELSE IF l3mode = "VECTOR"
                  THEN [agent |-> IF vectorTarget # "start" THEN RevertIfInside(agent, stepped)
                                  ELSE stepped,
                        idx |-> currentPathIndex]
                  ELSE FollowPath(agent, plannedPath, currentPathIndex, dt)
             d == [DemoState EXCEPT !.agent = WithTheta(agent, f.agent),
                                    !.currentPathIndex = f.idx]
         IN  /\ SetDemoState(Settle(DemoState, d, 4))
             /\ l3ev' = [kind |-> "tick", dt |-> dt, cmds |-> 0]
    /\ UNCHANGED <<goalLinks, l3variant, frameMs>>
    /\ UNCHANGED notL3Vars

\* the state updates of startDemo, on state s
StartDemoState(s) ==
    [s EXCEPT !.timer = "none", !.agent = StartAgent, !.currentPathIndex = 0,
              !.isStuck = FALSE, !.goalId = "goal_A", !.mode = "VECTOR",
              !.vectorTarget = "goal", !.demoPhase = "VECTOR_TO_GOAL", !.isRunning = TRUE]

\* the Start Demo button (shown while the demo is not running)
startDemo3 ==
    /\ l3variant = "demo"
    /\ ~isRunning
    /\ SetDemoState(Settle(DemoState, StartDemoState(DemoState), 4))
    /\ l3ev' = [kind |-> "ui", dt |-> 0, cmds |-> 0]
    /\ UNCHANGED <<goalLinks, l3variant, frameMs>>
    /\ UNCHANGED notL3Vars

\* the state updates of stopDemo, on state s
StopDemoState(s) ==
    [s EXCEPT !.timer = "none", !.isRunning = FALSE, !.demoPhase = "IDLE",
              !.agent = StartAgent, !.currentPathIndex = 0, !.isStuck = FALSE,
              !.goalId = "goal_A", !.mode = "VECTOR", !.vectorTarget = "goal"]

\* the Stop Demo and Reset buttons
stopDemo ==
    /\ l3variant = "demo"
    /\ SetDemoState(Settle(DemoState, StopDemoState(DemoState), 4))
    /\ l3ev' = [kind |-> "ui", dt |-> 0, cmds |-> 0]
    /\ UNCHANGED <<goalLinks, l3variant, frameMs>>
    /\ UNCHANGED notL3Vars

\* the state updates of the timeout callback that is pending in state s
TimeoutState(s) ==
    LET c == [s EXCEPT !.timer = "none"]
    IN  IF s.timer = "VECTOR_RETURN_TO_START" THEN [c EXCEPT !.vectorTarget = "start"]
        ELSE IF s.timer = "VECTOR_GOAL_MOVING"
        THEN [c EXCEPT !.vectorTarget = "goal", !.demoPhase = "VECTOR_TO_NEW_GOAL"]
        ELSE IF s.timer = "VECTOR_TO_NEW_GOAL"
        THEN [c EXCEPT !.isStuck = TRUE, !.vectorTarget = "hold",
                       !.demoPhase = "VECTOR_STUCK_WAIT"]
        ELSE IF s.timer = "VECTOR_STUCK_WAIT" THEN [c EXCEPT !.demoPhase = "RESET_FOR_ROUTE"]
        ELSE IF s.timer = "RESET_FOR_ROUTE" THEN [c EXCEPT !.demoPhase = "ROUTE_TO_GOAL"]
        ELSE IF s.timer = "GOAL_MOVED_ROUTE" THEN [c EXCEPT !.demoPhase = "ROUTE_WRONG_GOAL"]
        ELSE IF s.timer = "ROUTE_WRONG_WAIT" THEN [c EXCEPT !.demoPhase = "RESET_FOR_MAP"]
        ELSE IF s.timer = "RESET_FOR_MAP" THEN [c EXCEPT !.demoPhase = "MAP_TO_GOAL_A"]
        ELSE IF s.timer = "GOAL_MOVED_MAP" THEN [c EXCEPT !.demoPhase = "MAP_TO_GOAL_B"]
        ELSE c

\* the pending timeout of phaseTimerRef or stuckTimerRef runs out
TimerFires ==
    /\ l3variant = "demo"
    /\ pendingTimer # "none"
    /\ SetDemoState(Settle(DemoState, TimeoutState(DemoState), 4))
    /\ l3ev' = [kind |-> "timer", dt |-> 0, cmds |-> 0]
    /\ UNCHANGED <<goalLinks, l3variant, frameMs>>
    /\ UNCHANGED notL3Vars

\* the first render of the component
L3Init ==
    /\ agent = StartAgent
    /\ goalId = "goal_A"
    /\ l3mode = "VECTOR"
    /\ plannedPath = <<>>
    /\ currentPathIndex = 0
    /\ isRunning = FALSE
    /\ demoPhase = "IDLE"
    /\ isStuck = FALSE
    /\ vectorTarget = "goal"
    /\ pendingTimer = "none"
    /\ frameMs \in L3DtSet
    /\ l3ev = NoL3Ev

\* Level3: frames and buttons
L3Next ==
    \/ L3Tick
    \/ \E m \in L3Modes : setMode(m)
    \/ randomizeGoal
    \/ resetAgent

\* the automated demo: frames, timeouts and buttons
DemoNext ==
    \/ DemoTick
    \/ startDemo3
    \/ stopDemo
    \/ TimerFires

\* neither Level3 component is mounted
L3Parked ==
    /\ l3variant = "basic"
    /\ goalLinks = ShippedLinks
    /\ agent = StartAgent
    /\ goalId = "goal_A"
    /\ l3mode = "VECTOR"
    /\ plannedPath = <<>>
    /\ currentPathIndex = 0
    /\ isRunning = FALSE
    /\ demoPhase = "IDLE"
    /\ isStuck = FALSE
    /\ vectorTarget = "goal"
    /\ pendingTimer = "none"
    /\ frameMs = 0
    /\ l3ev = NoL3Ev

(***************************************************************************)
(* Level2 (part_004): foraging out, then homing by one of three primitives *)
(* positions in 1/PS px, angles in mrad, time in ms, odometry and drift in  *)
(* 1/1000 px, noise draws in 1/1000                                         *)
(***************************************************************************)
L2_W == 400

L2_H == 300

L2_MARGIN == 16

L2_HOME == [x |-> 200 * PS, y |-> 200 * PS]

L2_HOME_R == 14

L2_LANDMARK == [x |-> 110 * PS, y |-> 85 * PS]

L2_LANDMARK_RANGE == 85

L2_LANDMARK_LOCK_R == 12

L2_FOOD_R == 9

OUTBOUND_SECONDS == 10

L2_SPEED == 90

\* TURN_RATE = 3.0 rad/s
L2_TURN_RATE == 3

ReturnModes == {"COMPASS", "ODOMETRY", "LANDMARK"}

\* the three food places randomFoodPoint() draws: between 85 and 170 px from
\* HOME and at least 20 px inside the margins; the last layout leads the
\* agent across HOME when OUTBOUND_SECONDS have passed
L2FoodLayouts == <<
    << [x |-> 3000, y |-> 1200], [x |-> 600, y |-> 2500], [x |-> 3500, y |-> 2500] >>,
    << [x |-> 1000, y |-> 1000], [x |-> 3200, y |-> 1000], [x |-> 400, y |-> 2000] >>,
    << [x |-> 3100, y |-> 1700], [x |-> 900, y |-> 1800], [x |-> 1600, y |-> 600] >> >>

\* the draws of randn() of one run, in 1/1000:
\* <<wobble, drift x, drift y, odometry noise x, odometry noise y>>
L2NoiseSamples == { <<0, 0, 0, 0, 0>>, <<1500, 2000, -2000, 1000, -1500>> }

\* the frame period of the host (ms); delta-times are cut down to 50 ms
L2FramePeriods == {1000}

\* frames are delivered while a trip has lasted less than OUTBOUND_SECONDS
\* and this many seconds
MaxReturn == 2

\* setReturnMode is clicked at most this many times
MaxClicks == 1

\* the refs after reset(), the places of the food and the return mode apart
L2Fresh(fs, m, ph) ==
    [agent |-> [x |-> L2_HOME.x, y |-> L2_HOME.y, theta |-> -HalfPi],
     odo |-> [x |-> 0, y |-> 0],
     foods |-> fs,
     foodIdx |-> 0,
     trail |-> << [x |-> L2_HOME.x, y |-> L2_HOME.y] >>,
     odoTrail |-> << [x |-> L2_HOME.x, y |-> L2_HOME.y] >>,
     drift |-> [bx |-> 0, by |-> 0],
     lmLocked |-> FALSE,
     flash |-> 0,
     t |-> 0,
     beaconActive |-> FALSE,
     phase |-> ph,
     returnMode |-> m]

\* steerWithWalls(desiredAngle, x, y): each wall nearer than 35 px pushes
\* the wanted direction away from it
steerWithWalls(desiredAngle, x, y) ==
    LET push(d) == LET t == clamp(RoundDiv((35 * PS - d) * 1000, 35 * PS), 0, 1000)
                   IN  RoundDiv(t * t, 1000)
        left == x - L2_MARGIN * PS
        right == (L2_W - L2_MARGIN) * PS - x
        top == y - L2_MARGIN * PS
        bottom == (L2_H - L2_MARGIN) * PS - y
        rx == push(left) - push(right)
        ry == push(top) - push(bottom)
        sx == Cos(desiredAngle) + RoundDiv(14 * rx, 10)
        sy == Sin(desiredAngle) + RoundDiv(14 * ry, 10)
    IN  Atan2(sy, sx)

\* a.x = clamp(a.x, MARGIN, W - MARGIN)
L2Clamp(v, lo, hi) == clamp(v, lo, hi)

\* the OUTBOUND block with the change to RETURN one second early
L2Outbound_Early(s, t, nz, dt) ==
    LET a == s.agent
        first == s.foods[s.foodIdx + 1]
        reached == Dist2(a.x, a.y, first.x, first.y) <
                   ((L2_FOOD_R + 6) * PS) * ((L2_FOOD_R + 6) * PS)
        idx == IF reached THEN (s.foodIdx + 1) % Len(s.foods) ELSE s.foodIdx
        target == s.foods[idx + 1]
        wobble == RoundDiv(18 * nz[1] * dt, 100000)
        over == t >= (OUTBOUND_SECONDS - 1) * 1000
    IN  [s |-> [s EXCEPT !.foodIdx = idx,
                         !.phase = IF over THEN "RETURN" ELSE s.phase,
                         !.lmLocked = IF over THEN FALSE ELSE s.lmLocked],
         desired |-> Atan2(target.y - a.y, target.x - a.x) + wobble]

\* the OUTBOUND block: next food when the current one is reached, the wanted
\* heading, the change to RETURN after OUTBOUND_SECONDS
L2Outbound(s, t, nz, dt) ==
    LET a == s.agent
        first == s.foods[s.foodIdx + 1]
        reached == Dist2(a.x, a.y, first.x, first.y) <
                   ((L2_FOOD_R + 6) * PS) * ((L2_FOOD_R + 6) * PS)
        idx == IF reached THEN (s.foodIdx + 1) % Len(s.foods) ELSE s.foodIdx
        target == s.foods[idx + 1]
        wobble == RoundDiv(18 * nz[1] * dt, 100000)
        over == t >= OUTBOUND_SECONDS * 1000
    IN  [s |-> [s EXCEPT !.foodIdx = idx,
                         !.phase = IF over THEN "RETURN" ELSE s.phase,
                         !.lmLocked = IF over THEN FALSE ELSE s.lmLocked],
         desired |-> Atan2(target.y - a.y, target.x - a.x) + wobble]

\* the RETURN block: IDLE when home is reached, then the wanted heading of
\* the return mode
L2Return(s, desired) ==
    LET a == s.agent
        mode == s.returnMode
        home == Dist2(a.x, a.y, L2_HOME.x, L2_HOME.y) < (L2_HOME_R * PS) * (L2_HOME_R * PS)
        lmNear == Dist2(a.x, a.y, L2_LANDMARK.x, L2_LANDMARK.y) <=
                  (L2_LANDMARK_LOCK_R * PS) * (L2_LANDMARK_LOCK_R * PS)
        byOdo == Atan2(-RoundDiv(s.odo.y, 100), -RoundDiv(s.odo.x, 100))
        s1 == [s EXCEPT !.phase = IF home THEN "IDLE" ELSE s.phase]
    IN  IF mode = "COMPASS"
        THEN [s |-> s1, desired |-> Atan2(L2_HOME.y - a.y, L2_HOME.x - a.x)]
        ELSE IF mode = "ODOMETRY"
        THEN [s |-> s1, desired |-> byOdo]
        ELSE IF mode = "LANDMARK"
        THEN IF ~s.lmLocked
             THEN [s |-> IF lmNear
                         THEN [s1 EXCEPT !.odo = [x |-> (a.x - L2_HOME.x) * 100,
                                                  y |-> (a.y - L2_HOME.y) * 100],
                                         !.lmLocked = TRUE,
                                         !.flash = 1000]
                         ELSE s1,
                   desired |-> Atan2(L2_LANDMARK.y - a.y, L2_LANDMARK.x - a.x)]
             ELSE [s |-> s1, desired |-> byOdo]
        ELSE [s |-> s1, desired |-> desired]

\* turn, move and clamp
L2Move(a, desired, dt) ==
    LET maxTurn == L2_TURN_RATE * dt
        theta == wrapPi(a.theta + clamp(angleDiff(desired, a.theta), -maxTurn, maxTurn))
    IN  [x |-> L2Clamp(a.x + RoundDiv(Cos(theta) * L2_SPEED * dt * PS, 1000000),
                       L2_MARGIN * PS, (L2_W - L2_MARGIN) * PS),
         y |-> L2Clamp(a.y + RoundDiv(Sin(theta) * L2_SPEED * dt * PS, 1000000),
                       L2_MARGIN * PS, (L2_H - L2_MARGIN) * PS),
         theta |-> theta]

\* the true trail: a point is pushed when the length is a multiple of 3 (at
\* most 420 are kept), else the last point is overwritten
L2Trail(tr, p) ==
    IF Len(tr) % 3 = 0
    THEN LET u == Append(tr, p) IN IF Len(u) > 420 THEN Tail(u) ELSE u
    ELSE IF Len(tr) > 0 THEN [tr EXCEPT ![Len(tr)] = p] ELSE tr

\* the estimated trail: pushed when the length is a multiple of 3
L2OdoTrail(tr, p) ==
    IF Len(tr) % 3 = 0
    THEN LET u == Append(tr, p) IN IF Len(u) > 420 THEN Tail(u) ELSE u
    ELSE tr

\* the callback of useGameLoop past the IDLE test, on the refs s
L2Simulate(s, dt, nz) ==
    LET t == s.t + dt
        a == s.agent
        lmVisible == Dist2(a.x, a.y, L2_LANDMARK.x, L2_LANDMARK.y) <=
                     (L2_LANDMARK_RANGE * PS) * (L2_LANDMARK_RANGE * PS)
        s0 == [s EXCEPT !.flash = Max2(0, s.flash - RoundDiv(22 * dt, 10)),
                        !.beaconActive = (s.returnMode = "LANDMARK" /\ lmVisible)]
        o == IF s0.phase = "OUTBOUND" THEN L2Outbound(s0, t, nz, dt)
             ELSE [s |-> s0, desired |-> a.theta]
        r == IF o.s.phase = "RETURN" THEN L2Return(o.s, o.desired) ELSE o
        a1 == L2Move(a, steerWithWalls(r.desired, a.x, a.y), dt)
        bx == r.s.drift.bx + RoundDiv(RoundDiv(nz[2] * 55, 100) * dt, 1000)
        by == r.s.drift.by + RoundDiv(RoundDiv(nz[3] * 55, 100) * dt, 1000)
        root == ISqrt(dt * 1000)
        ox == r.s.odo.x + (a1.x - a.x) * 100 + RoundDiv(bx * dt, 1000)
                + RoundDiv(RoundDiv(nz[4] * 9, 10) * root, 1000)
        oy == r.s.odo.y + (a1.y - a.y) * 100 + RoundDiv(by * dt, 1000)
                + RoundDiv(RoundDiv(nz[5] * 9, 10) * root, 1000)
    IN  [r.s EXCEPT !.agent = a1,
                    !.drift = [bx |-> bx, by |-> by],
                    !.odo = [x |-> ox, y |-> oy],
                    !.trail = L2Trail(r.s.trail, [x |-> a1.x, y |-> a1.y]),
                    !.odoTrail = L2OdoTrail(r.s.odoTrail,
                                            [x |-> L2_HOME.x + RoundDiv(ox, 100),
                                             y |-> L2_HOME.y + RoundDiv(oy, 100)]),
                    !.t = t]

\* the first render and the mount effect, which draws the food
L2Init ==
    /\ \E i \in 1..Len(L2FoodLayouts) : level2 = L2Fresh(L2FoodLayouts[i], "COMPASS", "IDLE")
    /\ \E p \in L2FramePeriods, nz \in L2NoiseSamples :
           l2env = [period |-> p, nz |-> nz, clicks |-> 0, kind |-> "mount"]

\* the callback of useGameLoop
L2Tick ==
    /\ level2.t < (OUTBOUND_SECONDS + MaxReturn) * 1000
    /\ \E dtRaw \in {l2env.period} :
         LET dt == clamp(IF dtRaw > 1 THEN dtRaw ELSE dtRaw * 1000, 0, 50)
         IN  level2' = IF level2.phase = "IDLE" THEN level2
                       ELSE L2Simulate(level2, dt, l2env.nz)
    /\ l2env' = [l2env EXCEPT !.kind = "tick"]
    /\ UNCHANGED notL2Vars

\* the Start / Reset button
L2Reset ==
    /\ \E i \in 1..Len(L2FoodLayouts) :
           level2' = L2Fresh(L2FoodLayouts[i], level2.returnMode, "OUTBOUND")
    /\ l2env' = [l2env EXCEPT !.kind = "reset"]
    /\ UNCHANGED notL2Vars

\* a button of the return modes
L2SetReturnMode(m) ==
    /\ l2env.clicks < MaxClicks
    /\ level2' = [level2 EXCEPT !.returnMode = m]
    /\ l2env' = [l2env EXCEPT !.clicks = @ + 1, !.kind = "mode"]
    /\ UNCHANGED notL2Vars

L2Next ==
    \/ L2Tick
    \/ L2Reset
    \/ \E m \in ReturnModes : L2SetReturnMode(m)

\* Level2 is not mounted
L2Parked ==
    /\ level2 = L2Fresh(<<>>, "COMPASS", "IDLE")
    /\ l2env = [period |-> 0, nz |-> <<0, 0, 0, 0, 0>>, clicks |-> 0, kind |-> "mount"]

(***************************************************************************)
(* Level4 (part_002): a map route round the central wall, or cards         *)
(* (keyboard directions and go-to-goal); dt is taken as it comes, in ms     *)
(***************************************************************************)
L4_WORLD_W == 400

L4_WORLD_H == 300

L4_MARGIN == 12

L4_GOAL == [x |-> 300 * PS, y |-> 100 * PS]

MAP_ROUTE == << [x |-> 120 * PS, y |-> 250 * PS], [x |-> 120 * PS, y |-> 30 * PS],
                [x |-> 300 * PS, y |-> 30 * PS],  [x |-> 300 * PS, y |-> 100 * PS] >>

\* target === null
NoTarget == [x |-> -1, y |-> -1]

L4Start == [x |-> 50 * PS, y |-> 250 * PS, theta |-> 0]

hitsCentralWall(x, y) == x > 150 * PS /\ x < 170 * PS /\ y > 50 * PS /\ y < 250 * PS

\* the directions of KEY_TO_CMD: <<vx, vy, theta>>
CardDirs == [N |-> <<0, -1, -HalfPi>>, S |-> <<0, 1, HalfPi>>,
             E |-> <<1, 0, 0>>,        W |-> <<-1, 0, Pi>>]

\* the frame period of the host (ms)
L4FramePeriods == {50, 1000}

\* keys and buttons are pressed at most this many times
MaxKeys == 2

\* a position that is not clamped to the world
L4Clamp_None(v, lo, hi) == v

\* clamp(..., MARGIN, WORLD_W - MARGIN)
L4Clamp(v, lo, hi) == clamp(v, lo, hi)

\* stopAutopilot() that clears the target and leaves the route flags
stopAutopilot_TargetOnly(s) == [s EXCEPT !.target = NoTarget]

\* stopAutopilot()
stopAutopilot(s) == [s EXCEPT !.target = NoTarget, !.mapRouteActive = FALSE, !.mapRouteIndex = 0]

\* the tail shared by the handlers: the command stopped, not blocked
L4Unblocked(s) == [s EXCEPT !.cardCommand = "STOP", !.blockedTimer = 0, !.blocked = FALSE]

\* the step towards target t at speed100 / 100 px per ms (autopilot of the
\* cards and of the map): snapped within 5 px, stopped at the wall
L4Towards(s, t, speed100, dt) ==
    LET a == s.agent
        ang == Atan2(t.y - a.y, t.x - a.x)
        nx == L4Clamp(a.x + RoundDiv(Cos(ang) * speed100 * dt, 100000 \div PS),
                      L4_MARGIN * PS, (L4_WORLD_W - L4_MARGIN) * PS)
        ny == L4Clamp(a.y + RoundDiv(Sin(ang) * speed100 * dt, 100000 \div PS),
                      L4_MARGIN * PS, (L4_WORLD_H - L4_MARGIN) * PS)
    IN  IF Dist2(t.x, t.y, a.x, a.y) < (5 * PS) * (5 * PS)
        THEN [snapped |-> TRUE, agent |-> [x |-> t.x, y |-> t.y, theta |-> a.theta]]
        ELSE IF hitsCentralWall(nx, ny)
        THEN [snapped |-> FALSE, agent |-> [x |-> a.x, y |-> a.y, theta |-> ang]]
        ELSE [snapped |-> FALSE, agent |-> [x |-> nx, y |-> ny, theta |-> ang]]

\* the manual card command cmd (hold to move)
L4Manual(s, cmd, dt) ==
    LET a == s.agent
        d == CardDirs[cmd]
        nx == a.x + RoundDiv(d[1] * 20 * dt * PS, 100)
        ny == a.y + RoundDiv(d[2] * 20 * dt * PS, 100)
        cx == L4Clamp(nx, L4_MARGIN * PS, (L4_WORLD_W - L4_MARGIN) * PS)
        cy == L4Clamp(ny, L4_MARGIN * PS, (L4_WORLD_H - L4_MARGIN) * PS)
        clamped == cx # nx \/ cy # ny
        wall == ~clamped /\ hitsCentralWall(cx, cy)
        blockedNow == clamped \/ wall
        timer == s.blockedTimer + dt
        moved == [x |-> IF wall THEN a.x ELSE cx, y |-> IF wall THEN a.y ELSE cy,
                  theta |-> d[3]]
    IN  IF blockedNow /\ timer > 250
        THEN [s EXCEPT !.blocked = TRUE, !.cardCommand = "STOP", !.blockedTimer = 0]
        ELSE [s EXCEPT !.blockedTimer = IF blockedNow THEN timer ELSE 0,
                       !.blocked = IF blockedNow THEN s.blocked ELSE FALSE,
                       !.agent = moved]

\* the map mode with a target: on arrival the next point of the route, or
\* the end of the route
L4Map(s, dt) ==
    LET m == L4Towards(s, s.target, 15, dt)
        nextIdx == s.mapRouteIndex + 1
        s1 == [s EXCEPT !.agent = m.agent]
    IN  IF ~m.snapped THEN s1
        ELSE IF s.mapRouteActive
        THEN IF nextIdx < Len(MAP_ROUTE)
             THEN [s1 EXCEPT !.mapRouteIndex = nextIdx, !.target = MAP_ROUTE[nextIdx + 1]]
             ELSE [s1 EXCEPT !.mapRouteActive = FALSE, !.target = NoTarget]
        ELSE [s1 EXCEPT !.target = NoTarget]

\* the callback of useGameLoop
L4Frame(s, dt) ==
    IF s.submode = "CARDS"
    THEN IF s.target # NoTarget
         THEN LET m == L4Towards(s, s.target, 17, dt)
              IN  [s EXCEPT !.agent = m.agent,
                            !.target = IF m.snapped THEN NoTarget ELSE s.target]
         ELSE IF s.cardCommand = "STOP" THEN s
         ELSE L4Manual(s, s.cardCommand, dt)
    ELSE IF s.target = NoTarget THEN s
    ELSE L4Map(s, dt)

\* the first render
L4Fresh ==
    [submode |-> "MAP", agent |-> L4Start, target |-> NoTarget, mapRouteActive |-> FALSE,
     mapRouteIndex |-> 0, cardCommand |-> "STOP", blocked |-> FALSE, blockedTimer |-> 0]

L4Init ==
    /\ level4 = L4Fresh
    /\ \E p \in L4FramePeriods : l4env = [period |-> p, keys |-> 0, kind |-> "mount"]

L4Tick ==
    /\ \E dt \in {l4env.period} : level4' = L4Frame(level4, dt)
    /\ l4env' = [l4env EXCEPT !.kind = "tick"]
    /\ UNCHANGED notL4Vars

\* a key or a button whose handler leaves the component in state s
L4Pressed(s, kind) ==
    /\ l4env.keys < MaxKeys
    /\ level4' = s
    /\ l4env' = [l4env EXCEPT !.keys = @ + 1, !.kind = kind]
    /\ UNCHANGED notL4Vars

\* Reset (R)
resetAll ==
    L4Pressed([L4Unblocked(stopAutopilot(level4)) EXCEPT !.agent = L4Start, !.submode = "MAP"],
              "resetAll")

\* Read Map (P)
startMapRoute ==
    L4Pressed([L4Unblocked(level4) EXCEPT !.agent = L4Start, !.submode = "MAP",
                                          !.mapRouteActive = TRUE, !.mapRouteIndex = 0,
                                          !.target = MAP_ROUTE[1]],
              "startMapRoute")

\* Cards (C)
switchToCards ==
    L4Pressed([L4Unblocked(stopAutopilot(level4)) EXCEPT !.submode = "CARDS"], "switchToCards")

\* Map (M)
switchToMap ==
    L4Pressed([L4Unblocked(stopAutopilot(level4)) EXCEPT !.submode = "MAP"], "switchToMap")

\* G: go to the goal, in cards
goToGoalKey ==
    L4Pressed([L4Unblocked(stopAutopilot(level4)) EXCEPT !.submode = "CARDS",
                                                         !.target = L4_GOAL],
              "goToGoalKey")

\* Space, in cards: hardStopCards()
hardStopCards ==
    /\ level4.submode = "CARDS"
    /\ L4Pressed([L4Unblocked(level4) EXCEPT !.target = NoTarget], "hardStopCards")

\* a movement key goes down, in cards without a target
L4KeyDown(cmd) ==
    /\ level4.submode = "CARDS"
    /\ level4.target = NoTarget
    /\ L4Pressed([L4Unblocked(level4) EXCEPT !.cardCommand = cmd], "keydown")

\* a movement key goes up
L4KeyUp ==
    /\ level4.submode = "CARDS"
    /\ level4.target = NoTarget
    /\ L4Pressed(L4Unblocked(level4), "keyup")

L4Next ==
    \/ L4Tick
    \/ resetAll
    \/ startMapRoute
    \/ switchToCards
    \/ switchToMap
    \/ goToGoalKey
    \/ hardStopCards
    \/ \E cmd \in DOMAIN CardDirs : L4KeyDown(cmd)
    \/ L4KeyUp

\* Level4 is not mounted
L4Parked ==
    /\ level4 = L4Fresh
    /\ l4env = [period |-> 0, keys |-> 0, kind |-> "mount"]

(***************************************************************************)
(* The confidence predicate in IEEE 754 double arithmetic.  A number in    *)
(* [0, 2) is a sequence of bits: the units bit, then the bits of weight    *)
(* 1/2, 1/4, ...; a double is such a sequence with at most 53 bits from    *)
(* its leading 1 on.                                                       *)
(***************************************************************************)
\* the bits after the point carried along: enough for the 53 bits of 0.01
FracBits == 53 + 11

\* what is left of r / d after its first n bits after the point, 0 <= r < d
\* (0: the expansion has ended)
RECURSIVE DecRem(_, _, _)
DecRem(r, d, n) ==
    IF n = 0 THEN r
    ELSE IF n >= 8 THEN DecRem((256 * r) % d, d, n - 8)
    ELSE DecRem((2 * r) % d, d, n - 1)

\* the first n bits after the point of r / d, 0 <= r < d
DecBits(r, d, n) ==
    [i \in 1..n |-> IF 2 * DecRem(r, d, i - 1) >= d THEN 1 ELSE 0]

\* the index of the leading 1, 0 if there is none
LeadingOne(bits) ==
    LET ones == {i \in 1..Len(bits) : bits[i] = 1}
    IN  IF ones = {} THEN 0 ELSE CHOOSE i \in ones : \A j \in ones : i <= j

\* bits plus one unit at index q: the carry runs up to the last 0 before q
BitsInc(bits, q) ==
    LET zeros == {i \in 1..q : bits[i] = 0}
        z == IF zeros = {} THEN 0 ELSE CHOOSE i \in zeros : \A j \in zeros : j <= i
    IN  [i \in 1..Len(bits) |->
            IF i = z THEN 1 ELSE IF i > z /\ i <= q THEN 0 ELSE bits[i]]

\* round to nearest, ties to even, at 53 significant bits; sticky tells
\* that the exact value has further nonzero bits beyond the sequence
Round53(bits, sticky) ==
    LET p == LeadingOne(bits)
        q == p + 52
        rest == sticky \/ \E i \in (q + 2)..Len(bits) : bits[i] = 1
        kept == [i \in 1..Len(bits) |-> IF i <= q THEN bits[i] ELSE 0]
    IN  IF p = 0 \/ q >= Len(bits) THEN bits
        ELSE IF bits[q + 1] = 1 /\ (rest \/ bits[q] = 1) THEN BitsInc(kept, q)
        ELSE kept

\* a >= b on the bits from index i on
BitsGeqFrom(a, b, i) ==
    LET diff == {j \in i..Len(a) : a[j] # b[j]}
    IN  diff = {} \/ a[CHOOSE j \in diff : \A k \in diff : j <= k] = 1

\* a >= b
BitsGeq(a, b) == BitsGeqFrom(a, b, 1)

\* a - b for a >= b: bit i borrows when the bits after it fall short
BitsSub(a, b) ==
    [i \in 1..Len(a) |->
        (a[i] - b[i] - (IF BitsGeqFrom(a, b, i + 1) THEN 0 ELSE 1)) % 2]

\* the double written k / 100 in the source or in a test (0 <= k <= 100)
DoubleOfHundredths(k) ==
    Round53(<<k \div 100>> \o DecBits(k % 100, 100, FracBits),
            DecRem(k % 100, 100, FracBits) # 0)

\* Math.abs(w1 - w2): the exact difference, rounded to a double
JsAbsDiff(a, b) ==
    IF BitsGeq(a, b) THEN Round53(BitsSub(a, b), FALSE)
    ELSE Round53(BitsSub(b, a), FALSE)

\* Math.abs(w1 - w2) >= CONF_THRESH for the belief [k1 / 100, k2 / 100]
JsConfident(k1, k2) ==
    BitsGeq(JsAbsDiff(DoubleOfHundredths(k1), DoubleOfHundredths(k2)),
            DoubleOfHundredths(40))

\* the beliefs the predicate is evaluated on: w1 + w2 = 1, in hundredths
ConfInit ==
    /\ confBelief \in {<<k, 100 - k>> : k \in 0..100}
    /\ confRes = FALSE
    /\ cpc = "call"

\* const confident = Math.abs(w1 - w2) >= CONF_THRESH
ConfCall ==
    /\ cpc = "call"
    /\ confRes' = JsConfident(confBelief[1], confBelief[2])
    /\ cpc' = "done"
    /\ UNCHANGED confBelief
    /\ UNCHANGED notConfVars

\* the predicate is not being evaluated
ConfParked ==
    /\ confBelief = <<50, 50>>
    /\ confRes = FALSE
    /\ cpc = "done"

\* the part mounted is named; every part but the named one is at rest
ParkedBut(part) ==
    /\ mounted = part
    /\ callbackRef = Latest
    /\ rafQueue = IF part \in {"astar", "wrap", "conf"} THEN {} ELSE {"animate"}
    /\ IF part = "level2" THEN TRUE ELSE L2Parked
    /\ IF part = "conf" THEN TRUE ELSE ConfParked
    /\ IF part = "level4" THEN TRUE ELSE L4Parked
    /\ IF part = "astar" THEN TRUE ELSE AstarParked
    /\ IF part = "bidir" THEN TRUE ELSE BidirParked
    /\ IF part = "wrap" THEN TRUE ELSE WrapParked
    /\ IF part = "auto" THEN TRUE ELSE AutoParked
    /\ IF part = "l3" THEN TRUE ELSE L3Parked

\* findPath called on a graph; no panel mounted
InitAstar == AstarInit /\ ParkedBut("astar")

SpecAstar == InitAstar /\ [][AstarNext]_vars

\* a Bidirectionality panel mounted; no search running
Init == BidirInit /\ ParkedBut("bidir")

Spec == Init /\ [][BidirNext]_vars

\* the correction scenario: the state after reset('STRONG_WRONG', 'BIDIR') and
\* start() in the basic panel, after beginDemoPhase(1) in the demo panel
CorrectionInit ==
    /\ variant \in {"basic", "demo"}
    /\ \E side \in {0, 1} :
         LET f == IF variant = "demo" THEN BeginDemoFields(1, side)
                  ELSE [ResetFields("STRONG_WRONG", "BIDIR", side) EXCEPT !.running = TRUE]
         IN  /\ runningRef = f.running
             /\ priorRef = f.prior
             /\ simModeRef = f.mode
             /\ robotRef = f.robot
             /\ beliefRef = f.belief
             /\ actionRef = f.action
             /\ measRef = f.meas
             /\ elapsedRef = f.elapsed
             /\ senseTimerRef = f.senseTimer
             /\ verifyRef = f.verify
             /\ stubTimerRef = f.stubTimer
             /\ stubSideRef = f.stubSide
    /\ demoRef = [phase |-> IF variant = "demo" THEN 1 ELSE 0, reached |-> FALSE, hold |-> 0]
    /\ demoEnabledRef = (variant = "demo")
    /\ ev = [NoEv EXCEPT !.kind = "reset", !.published = <<A_IDLE>>, !.didReset = TRUE]
    /\ sinceSense = SENSE_PERIOD
    /\ senseCount = 0

\* frames only: no button is pressed
RunNext == Tick \/ TickSkipped

InitCorrection == CorrectionInit /\ ParkedBut("bidir")

\* A step in which the tick callback ran to its end, told by the record it
\* leaves behind; it can be taken whenever Tick can.  The first disjunct is
\* one such step written out in full.
TickStep ==
    /\ runningRef
    /\ elapsedRef < MaxElapsed * 1000
    /\ \/ /\ ev' = [NoEv EXCEPT !.kind = "tick"]
          /\ UNCHANGED <<variant, priorRef, simModeRef, runningRef, robotRef, beliefRef,
                         actionRef, measRef, elapsedRef, senseTimerRef, stubTimerRef,
                         stubSideRef, verifyRef, demoRef, demoEnabledRef, sinceSense,
                         senseCount>>
          /\ UNCHANGED notBidirVars
       \/ ev'.kind = "tick"

\* requestAnimationFrame keeps delivering frames with a valid delta-time
SpecCorrection == InitCorrection /\ [][RunNext]_vars /\ WF_vars(TickStep)

\* Level2Auto mounted; the host keeps calling the callback
InitAuto == AutoInit /\ ParkedBut("auto")

SpecAuto == InitAuto /\ [][AutoTick]_vars

\* Level3 mounted
InitL3 == l3variant = "basic" /\ goalLinks = ShippedLinks /\ L3Init /\ ParkedBut("l3")

SpecL3 == InitL3 /\ [][L3Next]_vars

\* the automated demo of Level3 mounted
InitDemo3 == l3variant = "demo" /\ goalLinks = ShippedLinks /\ L3Init /\ ParkedBut("l3")

SpecDemo3 == InitDemo3 /\ [][DemoNext]_vars

\* Level3 or its demo mounted on a graph in which a goal has lost its link
InitL3Cut ==
    /\ l3variant \in {"basic", "demo"}
    /\ goalLinks \in (SUBSET ShippedLinks) \ {ShippedLinks}
    /\ L3Init
    /\ ParkedBut("l3")

L3CutNext == L3Next \/ DemoNext

SpecL3Cut == InitL3Cut /\ [][L3CutNext]_vars

\* the automated demo left to itself: Start Demo, then only frames and
\* timeouts, which the host keeps delivering
DemoRunNext == startDemo3 \/ DemoTick \/ TimerFires

\* A frame of the demo in a state where the callback moves the agent, told by
\* the record it leaves behind.  The first disjunct is one such step written
\* out in full.
DemoTickStep ==
    /\ l3variant = "demo"
    /\ movementEnabled
    /\ ~(l3mode = "VECTOR" /\ vectorTarget = "hold")
    /\ \/ /\ l3ev' = [kind |-> "tick", dt |-> 0, cmds |-> 0]
          /\ UNCHANGED <<goalLinks, l3variant, agent, goalId, l3mode, plannedPath, currentPathIndex,
                         isRunning, demoPhase, isStuck, vectorTarget, pendingTimer, frameMs>>
          /\ UNCHANGED notL3Vars
       \/ l3ev'.kind = "tick"

\* A pending timeout running out, told in the same way
TimerStep ==
    /\ l3variant = "demo"
    /\ pendingTimer # "none"
    /\ \/ /\ l3ev' = [kind |-> "timer", dt |-> 0, cmds |-> 0]
          /\ pendingTimer' = "none"
          /\ UNCHANGED <<goalLinks, l3variant, agent, goalId, l3mode, plannedPath, currentPathIndex,
                         isRunning, demoPhase, isStuck, vectorTarget, frameMs>>
          /\ UNCHANGED notL3Vars
       \/ l3ev'.kind = "timer"

SpecDemo3Run ==
    InitDemo3 /\ [][DemoRunNext]_vars /\ WF_vars(DemoTickStep) /\ WF_vars(TimerStep)

\* one of the two demo sequencers mounted: Level2Auto or the automated demo
\* of Level3
InitDemos == InitAuto \/ InitDemo3

DemosNext ==
    \/ framePeriod > 0 /\ AutoTick
    \/ DemoNext

SpecDemos == InitDemos /\ [][DemosNext]_vars

\* ---- useGameLoop: the frame loop of a panel and its end ----
\* a cleanup that leaves the requested frame in place
GameLoopCleanup_NoCancel == UNCHANGED rafQueue

\* if (requestRef.current) cancelAnimationFrame(requestRef.current):
\* requestRef holds the request made last, the only one the browser holds
GameLoopCleanup == rafQueue' = {}

\* animate: the browser calls the requested callback, which calls the
\* panel's callback and requests the next frame
AnimateFrame ==
    /\ rafQueue # {}
    /\ \/ framePeriod > 0 /\ AutoTick
       \/ DemoTick

\* the buttons of the demo, on screen while the panel is mounted
DemoButtons ==
    /\ mounted # "none"
    /\ startDemo3 \/ stopDemo

\* the panel is taken off the screen: the cleanups of its effects run, that
\* of useGameLoop and, in the automated demo of Level3, clearTimers
Unmount ==
    /\ mounted # "none"
    /\ mounted' = "none"
    /\ GameLoopCleanup
    /\ pendingTimer' = IF l3variant = "demo" THEN "none" ELSE pendingTimer
    /\ UNCHANGED <<l3variant, goalLinks, agent, goalId, l3mode, plannedPath,
                   currentPathIndex, isRunning, demoPhase, isStuck, vectorTarget,
                   frameMs, l3ev>>
    /\ UNCHANGED <<astarVars, bidirVars, wrapVars, autoVars, l2Vars, l4Vars, confVars,
                   callbackRef>>

UnmountNext ==
    \/ AnimateFrame
    \/ TimerFires
    \/ DemoButtons
    \/ Unmount

\* one of the two demo panels on screen, taken off at any moment
SpecUnmount == InitDemos /\ [][UnmountNext]_vars

\* ---- useGameLoop: the callback the loop holds and the one last rendered ----
\* the callback of Level3 rendered with state c, called while the component
\* is in state cur: setAgent(nextAgent), and setCurrentPathIndex(index + 1)
\* with the index of the render
L3Callback(c, cur, dt) ==
    LET goalPos == GRAPH_NODES[c.goalId]
        f == IF c.mode = "VECTOR"
             THEN [agent |-> RevertIfInside(c.agent,
                                 StepTowards(c.agent, goalPos.x, goalPos.y, dt)),
                   idx |-> c.currentPathIndex]
             ELSE FollowPath(c.agent, c.plannedPath, c.currentPathIndex, dt)
    IN  [cur EXCEPT !.agent = WithTheta(c.agent, f.agent),
                    !.currentPathIndex = IF f.idx # c.currentPathIndex THEN f.idx
                                         ELSE cur.currentPathIndex]

\* the callback of the automated demo rendered with state c, called while the
\* component is in state cur: setAgent(nextAgent) if the agent has changed,
\* and setCurrentPathIndex(i => Math.min(i + 1, plannedPath.length - 1))
DemoCallback(c, cur, dt) ==
    LET goalPos == GRAPH_NODES[c.goalId]
        target == IF c.vectorTarget = "start" THEN START_POS ELSE goalPos
        stepped == StepTowards(c.agent, target.x, target.y, dt)
        enabled == c.isRunning /\ c.demoPhase \in MovementPhases
        f == IF ~enabled \/ (c.mode = "VECTOR" /\ c.vectorTarget = "hold")
             THEN [agent |-> c.agent, idx |-> c.currentPathIndex]
             ELSE IF c.mode = "VECTOR"
             THEN [agent |-> IF c.vectorTarget # "start"
                             THEN RevertIfInside(c.agent, stepped) ELSE stepped,
                   idx |-> c.currentPathIndex]
             ELSE FollowPath(c.agent, c.plannedPath, c.currentPathIndex, dt)
        next == WithTheta(c.agent, f.agent)
    IN  [cur EXCEPT !.agent = IF next # c.agent THEN next ELSE cur.agent,
                    !.currentPathIndex =
                        IF f.idx # c.currentPathIndex
                        THEN Min2(cur.currentPathIndex + 1, Len(c.plannedPath) - 1)
                        ELSE cur.currentPathIndex]

\* the callback called on state c while the component is in state cur, and
\* the renders and effects that follow
CallbackOn(c, cur, dt) ==
    IF l3variant = "demo" THEN Settle(cur, DemoCallback(c, cur, dt), 4)
    ELSE L3Callback(c, cur, dt)

\* a frame that finds the callback of the last render in callbackRef; the
\* component renders again, and the effect that stores the new callback
\* (callbackRef.current = callback) has yet to run
FrameBeforeSync ==
    /\ callbackRef = Latest
    /\ l3variant = "basic" \/ movementEnabled
    /\ \E dt \in {frameMs} :
         /\ SetDemoState(CallbackOn(DemoState, DemoState, dt))
         /\ l3ev' = [kind |-> "tick", dt |-> dt, cmds |-> l3ev.cmds]
    /\ callbackRef' = DemoState
    /\ UNCHANGED <<goalLinks, l3variant, frameMs>>
    /\ UNCHANGED <<astarVars, bidirVars, wrapVars, autoVars, l2Vars, l4Vars, confVars,
                   rafQueue, mounted>>

\* the next frame comes before that effect: animate calls the callback it
\* still holds; by the render that follows, the effect of the render before
\* may or may not have run
FrameOnOldCallback ==
    /\ callbackRef # Latest
    /\ \E dt \in {frameMs} :
         /\ SetDemoState(CallbackOn(callbackRef, DemoState, dt))
         /\ l3ev' = [kind |-> "tick", dt |-> dt, cmds |-> l3ev.cmds]
    /\ callbackRef' \in {callbackRef, DemoState}
    /\ UNCHANGED <<goalLinks, l3variant, frameMs>>
    /\ UNCHANGED <<astarVars, bidirVars, wrapVars, autoVars, l2Vars, l4Vars, confVars,
                   rafQueue, mounted>>

\* useEffect(() => { callbackRef.current = callback }, [callback]) of the
\* last render runs
SyncCallback ==
    /\ callbackRef # Latest
    /\ callbackRef' = Latest
    /\ UNCHANGED <<l3Vars, astarVars, bidirVars, wrapVars, autoVars, l2Vars, l4Vars,
                   confVars, rafQueue, mounted>>

\* Level3 or its demo on screen, frames, buttons and timeouts, with the
\* effects of a render run at any time after it
InitLoop ==
    /\ l3variant \in {"basic", "demo"}
    /\ goalLinks = ShippedLinks
    /\ L3Init
    /\ ParkedBut("l3")

LoopNext ==
    \/ callbackRef = Latest /\ L3Next
    \/ callbackRef = Latest /\ DemoNext
    \/ FrameBeforeSync
    \/ FrameOnOldCallback
    \/ SyncCallback

SpecLoop == InitLoop /\ [][LoopNext]_vars

\* ---- the effects of the automated demo, run at any time after their render ----
\* The effects of a render run after its paint or, at the latest, just before
\* the next render of the component.  callbackRef names the render whose
\* effects ran last: Latest when the effects of the current render have run,
\* the state of the render before while they are pending.
\* the recalculatePath effect of render c, after the effects of render p,
\* with its updates made to state b
PlanOn(p, c, b) ==
    IF ~c.isRunning /\ (c.goalId # p.goalId \/ c.mode # p.mode)
    THEN [b EXCEPT !.plannedPath = PlannedFor(c.mode, c.goalId),
                   !.currentPathIndex = IF c.mode = "VECTOR" THEN b.currentPathIndex ELSE 0]
    ELSE b

\* the phase entry effect of render c: it reads demoPhase and isRunning of
\* its render and sets the other state
EntryOn(p, c, b) ==
    IF c.demoPhase = p.demoPhase /\ c.isRunning = p.isRunning THEN b
    ELSE LET r == PhaseEntry([b EXCEPT !.demoPhase = c.demoPhase,
                                       !.isRunning = c.isRunning])
         IN  [r EXCEPT !.demoPhase = b.demoPhase, !.isRunning = b.isRunning]

\* the phase transition effect of render c: setDemoPhase and, at the end of
\* the demo, setIsRunning(false)
TransitionOn(p, c, b) ==
    LET t == PhaseTransition(c)
        deps(d) == <<d.demoPhase, d.isRunning, d.agent.x, d.agent.y, d.plannedPath,
                     d.vectorTarget>>
    IN  IF deps(c) # deps(p) /\ t.demoPhase # c.demoPhase
        THEN [b EXCEPT !.demoPhase = t.demoPhase,
                       !.isRunning = IF t.isRunning THEN b.isRunning ELSE FALSE]
        ELSE b

\* the effects of render c in the order of their hooks
EffectsOn(p, c, b) == TransitionOn(p, c, EntryOn(p, c, PlanOn(p, c, b)))

\* a handler has left the state updates u: without an update there is no
\* render; otherwise the pending effects run first, on top of the updates,
\* and the component renders
Handle(u, kind) ==
    /\ l3variant = "demo"
    /\ IF u = DemoState
       THEN UNCHANGED <<agent, goalId, l3mode, plannedPath, currentPathIndex, isRunning,
                        demoPhase, isStuck, vectorTarget, pendingTimer, callbackRef>>
       ELSE LET n == IF callbackRef = Latest THEN u
                     ELSE EffectsOn(callbackRef, DemoState, u)
            IN  /\ SetDemoState(n)
                /\ callbackRef' = IF n = DemoState THEN Latest ELSE DemoState
    /\ l3ev' = [kind |-> kind, dt |-> IF kind = "tick" THEN frameMs ELSE 0, cmds |-> 0]
    /\ UNCHANGED <<goalLinks, l3variant, frameMs>>
    /\ UNCHANGED <<astarVars, bidirVars, wrapVars, autoVars, l2Vars, l4Vars, confVars,
                   rafQueue, mounted>>

\* an animation frame: animate calls the callback that callbackRef holds
EffectFrame ==
    /\ rafQueue = {"animate"}
    /\ Handle(DemoCallback(IF callbackRef = Latest THEN DemoState ELSE callbackRef,
                           DemoState, frameMs), "tick")

\* the Start Demo button of the last render
EffectStart == mounted = "l3" /\ ~isRunning /\ Handle(StartDemoState(DemoState), "start")

\* the Stop Demo and Reset buttons
EffectStop == mounted = "l3" /\ Handle(StopDemoState(DemoState), "stop")

\* a timeout runs out; a timeout lasts 700 ms or more and effects run within
\* 100 ms of their render, so a timeout set by an effect that ran late is
\* cleared before it can run out
EffectTimer ==
    /\ pendingTimer # "none"
    /\ callbackRef = Latest \/ (isRunning /\ demoPhase = pendingTimer)
    /\ Handle(TimeoutState(DemoState), "timer")

\* the effects of the last render run after its paint
FlushEffects ==
    /\ l3variant = "demo"
    /\ callbackRef # Latest
    /\ LET n == EffectsOn(callbackRef, DemoState, DemoState)
       IN  /\ SetDemoState(n)
           /\ callbackRef' = IF n = DemoState THEN Latest ELSE DemoState
    /\ l3ev' = [kind |-> "effect", dt |-> 0, cmds |-> 0]
    /\ UNCHANGED <<goalLinks, l3variant, frameMs>>
    /\ UNCHANGED <<astarVars, bidirVars, wrapVars, autoVars, l2Vars, l4Vars, confVars,
                   rafQueue, mounted>>

EffectsNext ==
    \/ EffectFrame
    \/ EffectStart
    \/ EffectStop
    \/ EffectTimer
    \/ FlushEffects

\* the automated demo with frames, buttons, timeouts and effects interleaved
SpecEffects == InitDemo3 /\ [][EffectsNext]_vars

\* Level2 mounted
InitLevel2 == L2Init /\ ParkedBut("level2")

\* Level4 mounted
InitLevel4 == L4Init /\ ParkedBut("level4")

\* Level2 on screen: frames, Start / Reset and the return modes
SpecLevel2 == InitLevel2 /\ [][L2Next]_vars

\* Level4 as mounted, or after Cards (C) has been pressed on it
InitLevel4Modes ==
    /\ level4 \in {L4Fresh, [L4Fresh EXCEPT !.submode = "CARDS"]}
    /\ \E p \in L4FramePeriods : l4env = [period |-> p, keys |-> 0, kind |-> "mount"]
    /\ ParkedBut("level4")

\* Level4 on screen: frames, keys and buttons
SpecLevel4 == InitLevel4Modes /\ [][L4Next]_vars

\* one of the panels whose world is a rectangle with margins is mounted:
\* a Bidirectionality panel, Level2, Level2Auto or Level4
InitPanels == Init \/ InitLevel2 \/ InitAuto \/ InitLevel4

PanelsNext ==
    \/ mounted = "bidir" /\ BidirNext
    \/ mounted = "level2" /\ L2Next
    \/ mounted = "auto" /\ AutoTick
    \/ mounted = "level4" /\ L4Next

SpecPanels == InitPanels /\ [][PanelsNext]_vars

\* wrapPi called on one double, followed through its loops; a loop round is
\* taken whenever its condition holds
InitWrapLoop == WrapLoopInit /\ ParkedBut("wrap")

SpecWrapLoop ==
    InitWrapLoop /\ [][WrapLoopNext]_vars /\ WF_vars(WrapLoopNext)

\* the confidence predicate evaluated on one belief
InitConf == ConfInit /\ ParkedBut("conf")

SpecConf == InitConf /\ [][ConfCall]_vars

\* wrapPi called on one argument
InitWrap == WrapInit /\ ParkedBut("wrap")

SpecWrap == InitWrap /\ [][WrapCall]_vars

(***************************************************************************)
(* Pathfinder claims                                                       *)
(***************************************************************************)
\* the nodes reachable from a along neighbour lists (a itself included)
RECURSIVE ReachSet(_, _)
ReachSet(S, k) ==
    IF k = 0 THEN S
    ELSE ReachSet(S \cup { n \in Nodes : \E m \in S : Includes(nbrs[m], n) }, k - 1)

Reachable(a, b) == b \in ReachSet({a}, Cardinality(Nodes))

\* length of the shortest route from a to n that uses at most k edges
RECURSIVE ShortestWithin(_, _, _)
ShortestWithin(a, n, k) ==
    IF k = 0 THEN (IF n = a THEN 0 ELSE Infinity)
    ELSE LET prev == ShortestWithin(a, n, k - 1)
             via == { ShortestWithin(a, m, k - 1) + EdgeDist(m, n) :
                        m \in { q \in Nodes : Includes(nbrs[q], n) } }
             best == IF via = {} THEN Infinity
                     ELSE CHOOSE v \in via : \A w \in via : v <= w
         IN  Min2(prev, best)

ShortestLength(a, b) == ShortestWithin(a, b, Cardinality(Nodes) - 1)

RECURSIVE RouteLength(_, _)
RouteLength(p, i) ==
    IF i >= Len(p) THEN 0 ELSE EdgeDist(p[i], p[i + 1]) + RouteLength(p, i + 1)

IsRoute(p) ==
    /\ p # Null
    /\ Len(p) >= 1
    /\ p[1] = startId
    /\ p[Len(p)] = endId
    /\ \A i \in 1..(Len(p) - 1) : Includes(nbrs[p[i]], p[i + 1])

\* C1: when the goal is reachable from start, findPath returns a route that
\* begins with start, ends with goal, follows neighbour lists and has the
\* minimal cumulative Euclidean length among all start-to-goal routes.
C1_ShortestRoute ==
    (apc = "returned" /\ Reachable(startId, endId)) =>
        (IsRoute(path) /\ RouteLength(path, 1) = ShortestLength(startId, endId))

\* C2: when the goal is not reachable from start, findPath returns null, and
\* it returns null only with the open set empty.
C2_NoPathNull ==
    /\ (apc = "returned" /\ ~Reachable(startId, endId)) => (path = Null /\ openSet = <<>>)
    /\ (apc = "returned" /\ path = Null) => ~Reachable(startId, endId)

\* a goal that no node lists as neighbour, searched to the end
C2_Witness ==
    /\ apc = "returned"
    /\ path = Null
    /\ endId # startId
    /\ \A n \in Nodes : ~Includes(nbrs[n], endId)
    /\ Len(nbrs[startId]) > 0

(***************************************************************************)
(* Bidirectionality claims                                                 *)
(***************************************************************************)
\* a step that ran the whole tick callback
RanTick == ev'.kind = "tick"

\* C3: in both variants the belief vector always has w1 >= 0, w2 >= 0 and
\* w1 + w2 = 1 up to one unit of rounding.
C3_BeliefNormalized ==
    /\ beliefRef[1] >= 0
    /\ beliefRef[2] >= 0
    /\ Abs(beliefRef[1] + beliefRef[2] - Scale) <= 1

\* a sense event has just renormalised the belief away from the prior
C3_Witness ==
    /\ ev.kind = "tick"
    /\ ev.updated
    /\ ~ev.didReset
    /\ beliefRef # computeInitialBelief(priorRef)
    /\ beliefRef[1] # 0 /\ beliefRef[2] # 0

\* C4 as stated: a tick changes the belief only if the mode is BIDIR, the
\* position after the move is inside the sensing radius and the sense timer has
\* reached 0.35 s; two sense events are at least 0.35 s of tick time apart.
C4_BeliefChangeOnlyAtGate ==
    [][RanTick =>
        /\ (beliefRef' # beliefRef) =>
              (simModeRef = "BIDIR" /\ ev'.inVantage /\ ev'.timer >= SENSE_PERIOD)
        /\ ev'.sensed => sinceSense + ev'.dt >= SENSE_PERIOD]_vars

\* C4 amended: a tick changes the belief only by a sense event at the gate, or
\* by the reset it ends with (auto loop, demo phase change), which puts the
\* belief back to the prior's initial vector.
C4_BeliefChangeAtGateOrReset ==
    [][RanTick =>
        /\ (beliefRef' # beliefRef) =>
              \/ /\ ~ev'.didReset
                 /\ ev'.sensed /\ ev'.updated
                 /\ simModeRef = "BIDIR" /\ ev'.inVantage /\ ev'.timer >= SENSE_PERIOD
                 /\ senseTimerRef' = 0
              \/ /\ ev'.didReset
                 /\ beliefRef' = computeInitialBelief(priorRef')
        /\ ev'.sensed =>
              /\ simModeRef = "BIDIR" /\ ev'.inVantage /\ ev'.timer >= SENSE_PERIOD
              /\ sinceSense + ev'.dt >= SENSE_PERIOD]_vars

\* a second sense event of a run has changed the belief at the gate
C4_Witness ==
    /\ ev.kind = "tick"
    /\ ev.sensed /\ ev.updated /\ ~ev.didReset
    /\ senseCount >= 2
    /\ beliefRef # computeInitialBelief(priorRef)

\* C5: in STUBBORN mode no sense event occurs, the belief is the initial belief
\* of the configured prior and there is no measurement record.
C5_StubbornFrozen ==
    simModeRef = "STUBBORN" =>
        /\ beliefRef = computeInitialBelief(priorRef)
        /\ measRef = NoMeas
        /\ (ev.kind = "tick" /\ ~ev.didReset) => (~ev.sensed /\ ~ev.updated)

\* a STUBBORN tick inside the vantage region with the sense interval elapsed
C5_Witness ==
    /\ simModeRef = "STUBBORN"
    /\ ev.kind = "tick" /\ ~ev.didReset
    /\ ev.inVantage
    /\ ev.timer >= SENSE_PERIOD

\* C6: with prior STRONG_WRONG and mode STUBBORN every running tick selects L2
\* with the L2 stubborn-commit label.
C6_StubbornWrongTargetsL2 ==
    [][(RanTick /\ priorRef = "STRONG_WRONG" /\ simModeRef = "STUBBORN") =>
          (ev'.target = "L2" /\ ev'.nextAction = A_STUB_L2)]_vars

\* the stubborn strong-wrong agent has arrived at L2 and is still ticking
C6_Witness ==
    /\ ev.kind = "tick" /\ ~ev.didReset
    /\ priorRef = "STRONG_WRONG" /\ simModeRef = "STUBBORN"
    /\ ev.target = "L2"
    /\ Within(L2, robotRef, 3)

\* C7: in BIDIR mode with no verify latch a tick selects a landmark iff the
\* belief at the start of the tick has |w1 - w2| >= 0.40: L1 when w1 >= w2,
\* else L2; otherwise the vantage point with the active-localization label.
C7_BidirPolicy ==
    [][(RanTick /\ simModeRef = "BIDIR" /\ ~verifyRef) =>
          LET w1 == beliefRef[1]
              w2 == beliefRef[2]
          IN  IF Abs(w1 - w2) >= CONF_THRESH
              THEN IF w1 >= w2 THEN ev'.target = "L1" /\ ev'.nextAction = A_L1
                   ELSE ev'.target = "L2" /\ ev'.nextAction = A_L2
              ELSE ev'.target = "V" /\ ev'.nextAction = A_GO_V]_vars

\* a tick of the basic panel that fell back to the vantage point after the
\* belief had been moved by a measurement
C7_Witness ==
    /\ ev.kind = "tick" /\ ~ev.didReset /\ ~ev.sensed
    /\ variant = "basic" /\ simModeRef = "BIDIR"
    /\ ev.target = "V"
    /\ beliefRef # computeInitialBelief(priorRef)

\* C8: in the demo variant, while the verify latch is set in BIDIR mode, every
\* running tick selects the vantage point with the verify label.
C8_LatchForcesVantage ==
    [][(RanTick /\ variant = "demo" /\ simModeRef = "BIDIR" /\ verifyRef) =>
          (ev'.target = "V" /\ ev'.nextAction = A_VERIFY)]_vars

\* a verify tick taken while the belief already meets the threshold
C8_Witness ==
    /\ ev.kind = "tick" /\ ~ev.didReset
    /\ variant = "demo" /\ simModeRef = "BIDIR" /\ verifyRef
    /\ ev.nextAction = A_VERIFY
    /\ Abs(beliefRef[1] - beliefRef[2]) >= CONF_THRESH

\* C9: the latch goes from set to cleared only in a tick in which a sensing
\* update of the belief occurred and left |w1 - w2| >= 0.40; in every other
\* tick a set latch stays set.
C9_LatchClearsOnlyOnUpdate ==
    [][(verifyRef /\ ~verifyRef') =>
          /\ RanTick
          /\ ev'.sensed
          /\ ev'.updated
          /\ Abs(beliefRef'[1] - beliefRef'[2]) >= CONF_THRESH]_vars

\* C10 as stated: a tick publishes its label exactly when it differs from the
\* stored label, and after every running tick the stored label is the label
\* chosen in that tick.
C10_LabelEdgeAndStored ==
    [][RanTick =>
          /\ ev'.published = (IF ev'.nextAction # actionRef THEN <<ev'.nextAction>>
                              ELSE <<>>)
          /\ actionRef' = ev'.nextAction]_vars

\* C10 amended: the policy step publishes the chosen label exactly when it
\* differs from the stored label and then stores it; a tick that ends in a
\* reset also publishes IDLE and leaves IDLE stored.
C10_LabelEdgeUnlessReset ==
    [][RanTick =>
          LET edge == IF ev'.nextAction # actionRef THEN <<ev'.nextAction>> ELSE <<>>
          IN  IF ev'.didReset
              THEN ev'.published = edge \o <<A_IDLE>> /\ actionRef' = A_IDLE
              ELSE ev'.published = edge /\ actionRef' = ev'.nextAction]_vars

\* a tick that kept the label of the tick before it and published nothing
C10_Witness ==
    /\ ev.kind = "tick" /\ ~ev.didReset
    /\ ev.published = <<>>
    /\ actionRef = ev.nextAction
    /\ elapsedRef >= 2 * 250

(***************************************************************************)
(* wrapPi claims                                                           *)
(***************************************************************************)
\* C20: the value returned by wrapPi lies in the half-open interval
\* (-pi, pi]: never -pi or below, never above pi.
C20_WrapPiHalfOpen ==
    wpc = "done" => (wrapRes > -Pi /\ wrapRes <= Pi)

(***************************************************************************)
(* Bidirectionality: the correction scenario                               *)
(***************************************************************************)
\* every sense event so far in the run was an update favouring hypothesis 1
AllSensesFavourH1 ==
    (ev.kind = "tick" /\ ev.sensed) => (ev.updated /\ measRef.winner = "H1 (Near L1)")

\* C11: from reset with prior STRONG_WRONG and mode BIDIR, running, under
\* continued valid ticks the agent enters the vantage sensing region; and when
\* its sense updates favour hypothesis 1 the label becomes the commit-to-L1
\* label with w1 > w2.
C11_Correction ==
    /\ <>(ev.kind = "tick" /\ ev.inVantage)
    /\ ([]AllSensesFavourH1) => <>(actionRef = A_L1 /\ beliefRef[1] > beliefRef[2])

\* the agent has committed to L1 on a belief that two or more updates turned
C11_Witness ==
    /\ ev.kind = "tick" /\ ~ev.didReset
    /\ priorRef = "STRONG_WRONG" /\ simModeRef = "BIDIR"
    /\ senseCount >= 2
    /\ actionRef = A_L1
    /\ beliefRef[1] > beliefRef[2]

(***************************************************************************)
(* Level2Auto claims                                                       *)
(***************************************************************************)
\* C12: the step index of the Level2Auto sequencer is always in 0..N-1; it
\* changes only from i to (i+1) mod N, only in a tick in which the time spent
\* in step i exceeds the duration of step i, and the time in the step is 0
\* right after every such change.
C12_SequencerSteps ==
    [][ /\ seqRef.idx \in 0..(Len(DEMO_SEQUENCE) - 1)
        /\ seqRef'.idx \in 0..(Len(DEMO_SEQUENCE) - 1)
        /\ (seqRef'.idx # seqRef.idx \/ autoEv'.entered) =>
              /\ seqRef'.idx = (seqRef.idx + 1) % Len(DEMO_SEQUENCE)
              /\ autoEv'.kind = "tick"
              /\ seqRef.t + autoEv'.dt > StepAt(seqRef.idx).duration
              /\ seqRef'.t = 0 ]_vars

\* the sequencer has gone round: a tick has just moved it from the last step
\* to the first
C12_Witness ==
    /\ autoEv.kind = "tick" /\ autoEv.entered
    /\ seqRef.idx = 0 /\ seqRef.t = 0
    /\ simTime > SeqTotal

\* C13: when the delta-times delivered since mount sum to d1 + ... + dN + e
\* (e up to two frames of the longest allowed delta-time), the sequencer is
\* at step 0 again and the time in the step is e, to within one such frame.
C13_WrapAround ==
    (simTime > SeqTotal /\ simTime <= SeqTotal + 2 * LA_DT_CAP) =>
        /\ seqRef.idx = 0
        /\ Abs(seqRef.t - (simTime - SeqTotal)) <= LA_DT_CAP

\* C15: in the tick that enters a step flagged resetOnEnter the motion logic
\* starts from the sub-state resetSim() leaves, and the tick ends in the
\* state one motion step away from it.
C15_ResetBeforeMotion ==
    (autoEv.kind = "tick" /\ autoEv.entered /\ StepAt(seqRef.idx).resetOnEnter) =>
        /\ autoEv.atMotion = resetSim
        /\ stateRef = AutoSimulate(resetSim, StepAt(seqRef.idx), autoEv.dt, noise)

\* the tick that enters COM_OUT, after the agent has been out and back
C15_Witness ==
    /\ autoEv.kind = "tick" /\ autoEv.entered
    /\ StepAt(seqRef.idx).id = "COM_OUT"
    /\ autoEv.atMotion = resetSim
    /\ stateRef.agent # resetSim.agent
    /\ Len(stateRef.trail) <= 2

(***************************************************************************)
(* Level3 claims                                                           *)
(***************************************************************************)
\* C17: a frame never moves the agent further than its speed times the
\* largest delta-time of the sane band (250 ms): a frame with a larger
\* delta-time is skipped or its delta-time is cut down.
C17_DisplacementCapped ==
    [][ l3ev'.kind = "tick" =>
          Dist2(agent'.x, agent'.y, agent.x, agent.y) <=
              (RoundDiv(L3Speed * 250 * PS, 1000) + 2) * (RoundDiv(L3Speed * 250 * PS, 1000) + 2)
      ]_vars

\* C19: the agent is never strictly inside an obstacle rectangle.
C19_OutsideObstacles == ~InsideObstacle(agent.x, agent.y)

C16_LastPhaseIsLeft == (demoPhase = "DEMO_COMPLETE") ~> (demoPhase # "DEMO_COMPLETE")

(***************************************************************************)
(* Panels with a rectangular world                                         *)
(***************************************************************************)
\* margin <= x <= width - margin and margin <= y <= height - margin
InWorld(pos, width, height, margin) ==
    /\ margin * PS <= pos.x /\ pos.x <= (width - margin) * PS
    /\ margin * PS <= pos.y /\ pos.y <= (height - margin) * PS

\* C18: in the Bidirectionality panels, Level2, Level2Auto and Level4 the
\* position of the agent is inside the world of the panel less its margin
\* (10, 16, 40 and 12 px), whatever frames and commands came before.
C18_AgentInsideWorld ==
    /\ InWorld(robotRef, WORLD_W, WORLD_H, 10)
    /\ InWorld(level2.agent, L2_W, L2_H, L2_MARGIN)
    /\ InWorld(stateRef.agent, LA_WORLD_W, LA_WORLD_H, LA_MARGIN)
    /\ InWorld(level4.agent, L4_WORLD_W, L4_WORLD_H, L4_MARGIN)

\* Level4, cards: the key S is held and the frame just delivered wanted to
\* move the agent below the lower margin, where the clamp keeps it
C18_Witness ==
    /\ mounted = "level4"
    /\ l4env.kind = "tick"
    /\ level4.cardCommand = "S"
    /\ level4.blockedTimer > 0
    /\ level4.agent.y = (L4_WORLD_H - L4_MARGIN) * PS

(***************************************************************************)
(* wrapPi on non-finite input                                              *)
(***************************************************************************)
\* C21: wrapPi rejects or guards NaN and the infinities: the value it returns
\* is a finite heading.
C21_WrapPiReturnsFinite == wpc = "done" => wrapRes.k = "fin"

(***************************************************************************)
(* Bidirectionality: sensing gate, belief filter, confidence               *)
(***************************************************************************)
\* C22: after a running tick in which the sensing gate did not hold, the
\* belief was not updated and the measurement record is absent (null), in
\* BIDIR mode and in STUBBORN mode.
C22_NoRecordOutsideGate ==
    (ev.kind = "tick" /\ ~ev.sensed) => (~ev.updated /\ measRef = NoMeas)

C24_ConfidentFromFortyPercent ==
    cpc = "done" => (confRes <=> Abs(confBelief[1] - confBelief[2]) >= 40)

\* C25: a sense event whose measurement error strictly favours hypothesis 1
\* (err1 < err2) leaves w1 at least as large as it was before the event, so
\* w1 is non-decreasing across consecutive such events (a tick that ends in
\* a reset replaces the belief by the prior and is not counted).
C25_ConfirmingEvidenceKeepsW1 ==
    [][(RanTick /\ ev'.sensed /\ ~ev'.didReset /\ measRef'.err1 < measRef'.err2) =>
          beliefRef'[1] >= beliefRef[1]]_vars

\* a sense event that favours hypothesis 1 has raised w1 above the prior
C25_Witness ==
    /\ ev.kind = "tick" /\ ev.sensed /\ ev.updated /\ ~ev.didReset
    /\ measRef.err1 < measRef.err2
    /\ beliefRef[1] > computeInitialBelief(priorRef)[1]

\* findPath reports no path for the goal of the component
NoPathToGoal == findPathOnGraph(goalId) = NoPath

C27_PhaseChangesOnlyOnTicks ==
    [][demoPhase' # demoPhase => l3ev'.kind \in {"tick", "ui"}]_vars

\* C28: after a panel is unmounted its tick callback is never invoked again
\* and no timer of the panel fires: the panel's simulation state never
\* changes afterwards.
C28_UnmountedPanelIsStill ==
    [][mounted = "none" => (l3Vars' = l3Vars /\ autoVars' = autoVars)]_vars

\* the demo of Level3 was taken off the screen while it was running and the
\* timeout of VECTOR_GOAL_MOVING was pending
C28_Witness ==
    /\ mounted = "none" /\ rafQueue = {}
    /\ l3variant = "demo" /\ isRunning
    /\ demoPhase = "VECTOR_GOAL_MOVING" /\ pendingTimer = "none"

\* the first node in open-set order among those of minimal f score
FirstMinimal(os, f) ==
    os[CHOOSE k \in 1..Len(os) :
          /\ \A j \in 1..Len(os) : f[os[k]] <= f[os[j]]
          /\ \A j \in 1..(k - 1) : f[os[j]] > f[os[k]]]

\* C29: when several nodes of the open set share the minimal f score,
\* findPath expands the first of them in open-set order: an iteration that
\* expands a node takes that node out of the open set.
C29_FirstMinimalExpanded ==
    [][(apc = "loop" /\ apc' = "loop" /\ Len(openSet) > 0) =>
          ~Includes(openSet', FirstMinimal(openSet, fScore))]_vars

\* the landmark of a dither side
SideLabel(side) == IF side = 0 THEN L1.label ELSE L2.label

\* C30: in STUBBORN mode with the WEAK prior every running tick carries the
\* dither label and heads for the landmark of the side, which flips exactly
\* in the tick in which the dither timer exceeds 1.6 s; the timer then
\* restarts at 0, so it never stands above 1.6 s and no landmark is kept for
\* more than 1.6 s plus one tick of running time.
C30_DitherAlternates ==
    [][(RanTick /\ simModeRef = "STUBBORN" /\ priorRef = "WEAK") =>
          LET t0 == stubTimerRef + ev'.dt
              flip == t0 > STUB_DITHER_PERIOD
              side == IF flip THEN 1 - stubSideRef ELSE stubSideRef
          IN  /\ ev'.nextAction = A_DITHER
              /\ ev'.target = SideLabel(side)
              /\ stubTimerRef' <= STUB_DITHER_PERIOD
              /\ runningRef' => /\ stubSideRef' = side
                                /\ stubTimerRef' = IF flip THEN 0 ELSE t0
                                /\ actionRef' = A_DITHER]_vars

\* a running tick of the dither has just flipped the side
C30_Witness ==
    /\ ev.kind = "tick" /\ runningRef
    /\ simModeRef = "STUBBORN" /\ priorRef = "WEAK"
    /\ stubTimerRef = 0 /\ elapsedRef > STUB_DITHER_PERIOD
    /\ ev.target = SideLabel(stubSideRef)

\* the point the Level3 callback heads for: the goal in VECTOR mode, the
\* node at the cursor in ROUTE and MAP mode (the agent itself without a route)
L3Target ==
    IF l3mode = "VECTOR" THEN GRAPH_NODES[goalId]
    ELSE IF Len(plannedPath) > 0 /\ currentPathIndex < Len(plannedPath)
    THEN GRAPH_NODES[plannedPath[currentPathIndex + 1]]
    ELSE [x |-> agent.x, y |-> agent.y]

\* C31: a tick in which the agent is already within the arrival epsilon of
\* its current target leaves the heading unchanged (Level3: 5 px, the
\* tolerance of its path-following step).
C31_HeadingHeldAtTarget ==
    [][(l3variant = "basic" /\ l3ev'.kind = "tick"
        /\ Dist2(L3Target.x, L3Target.y, agent.x, agent.y) < (5 * PS) * (5 * PS)) =>
          agent'.theta = agent.theta]_vars

\* C32: whenever the route is non-empty the route cursor is a valid index of
\* it, and a tick advances the cursor by exactly one and only when the agent
\* is within 5 px of the node at the cursor, so no waypoint is skipped, also
\* when a frame runs on the callback of an earlier render.
C32_CursorStepsOneAtNode ==
    /\ [](Len(plannedPath) > 0 => currentPathIndex \in 0..(Len(plannedPath) - 1))
    /\ [][(l3ev'.kind = "tick" /\ currentPathIndex' > currentPathIndex) =>
             /\ currentPathIndex' = currentPathIndex + 1
             /\ Dist2(L3Target.x, L3Target.y, agent.x, agent.y) < (5 * PS) * (5 * PS)]_vars

\* the simulation state of a Bidirectionality panel: pose, belief, action
\* label, measurement, sense and dither timers, elapsed time, verify latch
\* and demo progress
BidirSimState ==
    <<robotRef, beliefRef, actionRef, measRef, senseTimerRef, stubTimerRef,
      stubSideRef, elapsedRef, verifyRef, demoRef>>

\* C33: in both Bidirectionality variants a frame delivered while the
\* simulation is paused, or with a delta-time <= 0 or > 0.25 s, changes no
\* simulation state; the frames that do change it carry a delta-time inside
\* the band and find the simulation running.  Every step of the panel that
\* is not such a frame or a reset (a skipped frame, start, pause) leaves the
\* simulation state as it was.
C33_SkippedFrameKeepsState ==
    [][/\ ev'.kind = "idle" => BidirSimState' = BidirSimState
       /\ ev'.kind = "tick" => (runningRef /\ ev'.dt > 0 /\ ev'.dt <= 250)]_vars

\* a frame has been skipped in the middle of a run, with a sense event behind
C33_Witness ==
    /\ ev.kind = "idle" /\ runningRef
    /\ elapsedRef > 0 /\ robotRef # START
    /\ measRef # NoMeas

\* C34: after reset(prior, mode) in a Bidirectionality panel, whatever the
\* state before: the pose is START, the belief is the initial vector of the
\* prior now selected (WEAK gives [0.5, 0.5], STRONG_CORRECT favours w1,
\* STRONG_WRONG favours w2), the action label is IDLE, the measurement is
\* null, the elapsed, sense and dither timers are 0, in the demo variant the
\* verify latch is set, and running is false unless the handler is
\* beginDemoPhase, which calls start() after reset.
C34_ResetReinitialises ==
    [][ev'.kind = "reset" =>
         /\ robotRef' = START
         /\ beliefRef' = computeInitialBelief(priorRef')
         /\ priorRef' = "WEAK" => beliefRef' = <<500, 500>>
         /\ priorRef' = "STRONG_CORRECT" => beliefRef'[1] > beliefRef'[2]
         /\ priorRef' = "STRONG_WRONG" => beliefRef'[2] > beliefRef'[1]
         /\ actionRef' = A_IDLE
         /\ measRef' = NoMeas
         /\ elapsedRef' = 0 /\ senseTimerRef' = 0 /\ stubTimerRef' = 0
         /\ variant = "demo" => verifyRef'
         /\ (variant = "basic" \/ ~demoEnabledRef') => ~runningRef'
         /\ runningRef' => demoRef' = [phase |-> 0, reached |-> FALSE, hold |-> 0]]_vars

\* the Prior button pressed in the middle of a run: the sense period has been
\* running, and the panel stands reset with the STRONG_WRONG prior
C34_Witness ==
    /\ ev.kind = "reset" /\ variant = "basic"
    /\ priorRef = "STRONG_WRONG" /\ beliefRef = <<100, 900>>
    /\ sinceSense # SENSE_PERIOD
    /\ ~runningRef /\ robotRef = START

\* C35: on every animation frame useGameLoop calls the callback of the last
\* render of the component, so that the tick is computed from the state the
\* previous tick produced: the state after the frame is what the callback of
\* the current state makes of it.
C35_FrameRunsLatestCallback ==
    [][l3ev'.kind = "tick" =>
         /\ callbackRef = Latest
         /\ DemoState' = CallbackOn(DemoState, DemoState, frameMs)]_vars

\* the phases of the automated demo in their order
PhaseOrder ==
    <<"VECTOR_TO_GOAL", "VECTOR_RETURN_TO_START", "VECTOR_GOAL_MOVING", "VECTOR_TO_NEW_GOAL",
      "VECTOR_STUCK_WAIT", "RESET_FOR_ROUTE", "ROUTE_TO_GOAL", "GOAL_MOVED_ROUTE",
      "ROUTE_WRONG_GOAL", "ROUTE_WRONG_WAIT", "RESET_FOR_MAP", "MAP_TO_GOAL_A",
      "GOAL_MOVED_MAP", "MAP_TO_GOAL_B", "DEMO_COMPLETE">>

\* phase q follows phase p in the order
FollowsInOrder(p, q) ==
    \E i \in 1..(Len(PhaseOrder) - 1) : PhaseOrder[i] = p /\ PhaseOrder[i + 1] = q

\* C36: in the automated demo of Level3 a phase is entered only from the
\* phase before it in the fixed order, while the demo runs; the only other
\* changes of phase are startDemo, which leads to VECTOR_TO_GOAL, and
\* stopDemo, which leads to IDLE; and isRunning is false whenever the phase
\* is IDLE or DEMO_COMPLETE.
C36_PhasesInOrder ==
    /\ [][/\ l3ev'.kind = "stop" => demoPhase' = "IDLE"
          /\ l3ev'.kind = "start" => demoPhase' = "VECTOR_TO_GOAL"
          /\ (demoPhase' # demoPhase /\ l3ev'.kind \notin {"start", "stop"})
                => (isRunning /\ FollowsInOrder(demoPhase, demoPhase'))]_vars
    /\ [](demoPhase \in {"IDLE", "DEMO_COMPLETE"} => ~isRunning)

\* C37: in the automated demo of Level3 a timeout runs out only while the
\* demo is running in the phase that set it, and once the demo has been
\* stopped the phase stays IDLE and the agent stays at the start position
\* until startDemo, whatever the order of timeouts, frames and buttons.
C37_StoppedDemoStaysStopped ==
    /\ [][l3ev'.kind = "timer" => (isRunning /\ demoPhase = pendingTimer)]_vars
    /\ [][(demoPhase = "IDLE" /\ demoPhase' # "IDLE") => l3ev'.kind = "start"]_vars
    /\ [](demoPhase = "IDLE" => (agent.x = START_POS.x /\ agent.y = START_POS.y))

\* C38: in Level4, after every sequence of keys, buttons and frames, the map
\* route is active only in submode MAP, and then mapRouteIndex is an index of
\* MAP_ROUTE and the autopilot target is the point of the route at that
\* index; and the manual card command is other than STOP only in submode
\* CARDS with no autopilot target.
C38_ControlModesConsistent ==
    /\ level4.mapRouteActive =>
         /\ level4.submode = "MAP"
         /\ level4.mapRouteIndex \in 0..(Len(MAP_ROUTE) - 1)
         /\ level4.target = MAP_ROUTE[level4.mapRouteIndex + 1]
    /\ level4.cardCommand # "STOP" =>
         /\ level4.submode = "CARDS"
         /\ level4.target = NoTarget

\* the map route has passed its first point and a frame has just run
C38_Witness ==
    /\ l4env.kind = "tick"
    /\ level4.mapRouteActive /\ level4.mapRouteIndex >= 1
    /\ level4.agent # L4Start

\* the simulation state of Level2, the return mode and the food apart
L2SimState ==
    <<level2.agent, level2.odo, level2.drift, level2.trail, level2.odoTrail,
      level2.lmLocked, level2.t, level2.phase, level2.foodIdx, level2.flash,
      level2.beaconActive>>

L2AtHome(a) ==
    Dist2(a.x, a.y, L2_HOME.x, L2_HOME.y) < (L2_HOME_R * PS) * (L2_HOME_R * PS)

\* C39 as stated: a frame of Level2 changes the phase only from OUTBOUND to
\* RETURN, and only when the accumulated time has reached 10 s, or from
\* RETURN to IDLE, and only with the agent within HOME_R of HOME; a frame in
\* phase IDLE changes no simulation state; and only reset enters OUTBOUND,
\* with pose, odometry, drift, trails, landmark lock and time as at the start.
C39_PhaseStepsOneForward ==
    [][/\ (l2env'.kind = "tick" /\ level2'.phase # level2.phase) =>
             \/ /\ level2.phase = "OUTBOUND" /\ level2'.phase = "RETURN"
                /\ level2'.t >= OUTBOUND_SECONDS * 1000
             \/ /\ level2.phase = "RETURN" /\ level2'.phase = "IDLE"
                /\ L2AtHome(level2.agent)
       /\ (l2env'.kind = "tick" /\ level2.phase = "IDLE") => L2SimState' = L2SimState
       /\ (level2'.phase = "OUTBOUND" /\ level2.phase # "OUTBOUND") =>
             /\ l2env'.kind = "reset"
             /\ level2' = L2Fresh(level2'.foods, level2.returnMode, "OUTBOUND")]_vars

\* C39 (amended): a frame of Level2 never moves the phase backwards: it
\* leaves OUTBOUND only when the accumulated time has reached 10 s, for
\* RETURN or, with the agent already within HOME_R of HOME, straight for
\* IDLE; it changes RETURN to IDLE only with the agent within HOME_R of HOME;
\* a frame in phase IDLE changes no simulation state; and only reset enters
\* OUTBOUND, with pose, odometry, drift, trails, landmark lock and time as at
\* the start.
C39_PhaseNeverBackwards ==
    [][/\ (l2env'.kind = "tick" /\ level2'.phase # level2.phase) =>
             \/ /\ level2.phase = "OUTBOUND" /\ level2'.phase = "RETURN"
                /\ level2'.t >= OUTBOUND_SECONDS * 1000
                /\ ~L2AtHome(level2.agent)
             \/ /\ level2.phase = "OUTBOUND" /\ level2'.phase = "IDLE"
                /\ level2'.t >= OUTBOUND_SECONDS * 1000
                /\ L2AtHome(level2.agent)
             \/ /\ level2.phase = "RETURN" /\ level2'.phase = "IDLE"
                /\ L2AtHome(level2.agent)
       /\ (l2env'.kind = "tick" /\ level2.phase = "IDLE") => L2SimState' = L2SimState
       /\ (level2'.phase = "OUTBOUND" /\ level2.phase # "OUTBOUND") =>
             /\ l2env'.kind = "reset"
             /\ level2' = L2Fresh(level2'.foods, level2.returnMode, "OUTBOUND")]_vars

\* the outbound time has run out with the agent on its way across HOME: the
\* frame that ended OUTBOUND has left the phase IDLE
C39_Witness ==
    /\ l2env.kind = "tick"
    /\ level2.phase = "IDLE"
    /\ level2.t = OUTBOUND_SECONDS * 1000
    /\ level2.foodIdx > 0

\* ---------------------------------------------------------------------------
\* findPath run to its end: the while loop keeps iterating while it can
\* an iteration of the while loop, named by what it leaves behind: it can be
\* taken whenever apc = "loop", where one of ReturnPath, Expand and ReturnNull
\* is enabled.  The first disjunct is one such step written out in full.
LoopStep ==
    /\ apc = "loop"
    /\ \/ /\ apc' = "returned"
          /\ path' = Null
          /\ UNCHANGED <<layout, nbrs, startId, endId, openSet, cameFrom, gScore, fScore>>
          /\ UNCHANGED notAstarVars
       \/ apc' \in {"loop", "returned"}

SpecAstarRun == InitAstar /\ [][AstarNext]_vars /\ WF_vars(LoopStep)

\* following cameFrom from n reaches an id without predecessor in at most fuel links
RECURSIVE ChainEnds(_, _, _)
ChainEnds(n, came, fuel) ==
    IF came[n] = Undefined THEN TRUE
    ELSE IF fuel = 0 THEN FALSE
    ELSE ChainEnds(came[n], came, fuel - 1)

NoRepeat(p) == \A i, j \in 1..Len(p) : i # j => p[i] # p[j]

\* C40: findPath terminates on every graph whose neighbour ids are nodes of the
\* graph, for every start and goal (cycles, one-way edges and start = goal
\* included): every run reaches a return; and the predecessor chain followed by
\* the reconstruction has no cycle: from every node it ends within
\* Cardinality(Nodes) - 1 links, the start node never gets a predecessor, and a
\* returned route visits no node twice.
C40_FindPathTerminates ==
    /\ <>(apc = "returned")
    /\ [](\A n \in Nodes : ChainEnds(n, cameFrom, Cardinality(Nodes) - 1))
    /\ [](cameFrom[startId] = Undefined)
    /\ []((apc = "returned" /\ path # Null) => NoRepeat(path))

\* a route returned on a graph with a two-way pair and a one-way edge, where
\* node n, listed by the expanded node m, got a shorter way through a node
\* expanded after m: its predecessor was overwritten
C40_Witness ==
    /\ apc = "returned"
    /\ path # Null
    /\ Len(path) >= 3
    /\ \E a, b \in Nodes : Includes(nbrs[a], b) /\ Includes(nbrs[b], a)
    /\ \E a, b \in Nodes : Includes(nbrs[a], b) /\ ~Includes(nbrs[b], a)
    /\ \E m, n \in Nodes :
           /\ Includes(nbrs[m], n)
           /\ cameFrom[m] # Undefined
           /\ ~Includes(openSet, m)
           /\ cameFrom[n] \notin {m, Undefined}
           /\ fScore[m] < fScore[cameFrom[n]]
           /\ gScore[n] < gScore[m] + EdgeDist(m, n)

====
